---------------------------- MODULE Spec2Model ----------------------------
(***************************************************************************)
(* A model of the interactive console of ai_switch_cli (src/tui.py) and of *)
(* the two collaborators it calls (src/core/config_loader.py and           *)
(* src/core/env_service.py).                                               *)
(*                                                                         *)
(* Text is modelled as a sequence of character codes, so that lower(),     *)
(* strip(), startswith(), `in`, splitlines() and join() are computed as    *)
(* Python computes them.  A Python dict is a function whose DOMAIN is the  *)
(* set of keys that are present.                                           *)
(***************************************************************************)
EXTENDS Integers, Sequences, FiniteSets, TLC

\* ------------------------------------------------------------------ bounds
\* Number of most recent log messages the model retains.
MsgWindow == 1
\* Largest number of fetch threads that may exist at the same time.
MaxThreads == 2
\* Longest text the operator types into an input buffer.
MaxInput == 1
\* Largest number of custom profiles held in the settings, over both kinds.
MaxCustom == 1
\* Largest number of lines of the shell startup file before a profile is applied.
MaxFileLines == 6
\* Largest number of services in a health document of the status display.
MaxEntries == 3
\* Largest number of service records in a health document of the normalizer.
MaxServices == 2
AddDepth == 5

\* ------------------------------------------------------- key codes (curses)
KEY_ESC == 27
KEY_ENTER == 10
KEY_DEL == 127
KEY_UP == 259
KEY_DOWN == 258
ChSpace == 32
ChTilde == 126
ChUpperA == 65
ChUpperZ == 90
CaseOffset == 32
ChNewline == 10
ChTab == 9
ChQuote == 34

\* ------------------------------------------------------------ text helpers
Max2(a, b) == IF a >= b THEN a ELSE b
Min2(a, b) == IF a <= b THEN a ELSE b

\* str.lower() on ASCII text
Lower(s) ==
    [i \in 1..Len(s) |->
        IF s[i] >= ChUpperA /\ s[i] <= ChUpperZ THEN s[i] + CaseOffset ELSE s[i]]

\* Python's `k in t` for strings
Contains(k, t) ==
    \E i \in 0..(Len(t) - Len(k)) : SubSeq(t, i + 1, i + Len(k)) = k

\* str.startswith
StartsWith(s, p) == Len(p) <= Len(s) /\ SubSeq(s, 1, Len(p)) = p

IsSpace(c) == c \in {ChSpace, ChTab, ChNewline}

RECURSIVE LStrip(_)
LStrip(s) == IF s # <<>> /\ IsSpace(Head(s)) THEN LStrip(Tail(s)) ELSE s

RECURSIVE RStrip(_)
RStrip(s) ==
    IF s # <<>> /\ IsSpace(s[Len(s)]) THEN RStrip(SubSeq(s, 1, Len(s) - 1)) ELSE s

\* str.strip()
Strip(s) == RStrip(LStrip(s))

\* s[:-1]
DropLast(s) == IF s = <<>> THEN <<>> ELSE SubSeq(s, 1, Len(s) - 1)

\* s[:n]
Take(s, n) == SubSeq(s, 1, Min2(n, Len(s)))

\* dict.get(k, d)
Get(d, k, default) == IF k \in DOMAIN d THEN d[k] ELSE default

\* 32 <= ch <= 126
Printable(ch) == ch >= ChSpace /\ ch <= ChTilde

\* ------------------------------------------------------------ program text
TxtExport == <<101, 120, 112, 111, 114, 116, 32>>
TxtAnthropicAuthToken ==
    <<65, 78, 84, 72, 82, 79, 80, 73, 67, 95, 65, 85, 84, 72, 95, 84, 79, 75, 69, 78>>
TxtAnthropicBaseUrl ==
    <<65, 78, 84, 72, 82, 79, 80, 73, 67, 95, 66, 65, 83, 69, 95, 85, 82, 76>>
TxtOpenaiApiKey == <<79, 80, 69, 78, 65, 73, 95, 65, 80, 73, 95, 75, 69, 89>>
TxtOpenaiBaseUrl == <<79, 80, 69, 78, 65, 73, 95, 66, 65, 83, 69, 95, 85, 82, 76>>
TxtClaudeCode == <<99, 108, 97, 117, 100, 101, 95, 99, 111, 100, 101>>
TxtCodex == <<99, 111, 100, 101, 120>>
TxtOk == <<111, 107>>
TxtSlow == <<115, 108, 111, 119>>
TxtError == <<101, 114, 114, 111, 114>>
TxtUnknown == <<117, 110, 107, 110, 111, 119, 110>>
TxtNodes == <<95, 95, 110, 111, 100, 101, 115, 95, 95>>

\* core/config_loader.py CONFIG_MAP: the environment variables and the
\* profile keys of each kind
CONFIG_MAP ==
    [claude |-> [env_token |-> TxtAnthropicAuthToken, env_url |-> TxtAnthropicBaseUrl,
                 json_token |-> "token", json_url |-> "url"],
     codex  |-> [env_token |-> TxtOpenaiApiKey, env_url |-> TxtOpenaiBaseUrl,
                 json_token |-> "api_key", json_url |-> "base_url"]]

Kinds == {"claude", "codex"}

\* TUI.MODE_*
MODE_LIST == "list"
MODE_SETTINGS == "settings"
MODE_ADD_CUSTOM == "add_custom"
MODE_CUSTOM_KEY == "custom_key"
MODE_CONFIRM == "confirm"
MODE_CONFIRM_CUSTOM_KEY == "confirm_custom_key"

\* Python's None for an object reference
None == [none |-> TRUE]

\* ------------------------------------------------------- the Profile Store
\* The profile files read by config_loader.load_configs: three claude
\* profiles (the second without a group) and one codex profile.
StoreFile ==
    [claude |-> << [name |-> <<65, 98>>, group |-> <<103>>, token |-> <<49>>, url |-> <<117>>],
                   [name |-> <<98>>, token |-> <<50>>, url |-> <<117>>],
                   [name |-> <<99>>, group |-> <<71>>, token |-> <<51>>, url |-> <<118>>] >>,
     codex  |-> << [name |-> <<120>>, group |-> <<103>>, api_key |-> <<57>>,
                    base_url |-> <<119>>] >>]

\* config_loader.load_configs(ai_type): the profile list, or ConfigLoadError
\* when the file is missing, unreadable or malformed
LoadOutcomes(ai_type) ==
    { [ok |-> TRUE, configs |-> StoreFile[ai_type]],
      [ok |-> FALSE, configs |-> <<>>] }

\* ------------------------------------------------------ the Health Poller
\* A JSON value of a status field: an integer, a text, or absent/null
JInt(n) == [t |-> "int", v |-> n]
JStr(s) == [t |-> "str", s |-> s]
JNull == [t |-> "null"]

\* results[-50:]: the number of trailing results the timeline parsers keep
ResultsLimit == 50

\* status_code_to_str that takes the code 2 for ok
status_code_to_str_two_is_ok(code) ==
    IF code.t = "int"
    THEN CASE code.v = 1 -> TxtOk
           [] code.v = 2 -> TxtOk
           [] code.v = 3 -> TxtError
           [] OTHER -> TxtUnknown
    ELSE IF code.t = "str" /\ code.s # <<>> THEN code.s ELSE TxtUnknown

\* normalize_health.status_code_to_str
status_code_to_str(code) ==
    IF code.t = "int"
    THEN CASE code.v = 1 -> TxtOk
           [] code.v = 2 -> TxtSlow
           [] code.v = 3 -> TxtError
           [] OTHER -> TxtUnknown
    ELSE IF code.t = "str" /\ code.s # <<>> THEN code.s ELSE TxtUnknown

ClaudeKeywords ==
    { <<99, 108, 97, 117, 100, 101>>, <<99, 99, 19987, 29992>>, <<99, 99, 32>>,
      <<115, 111, 110, 110, 101, 116>>, <<111, 112, 117, 115>>, <<104, 97, 105, 107, 117>> }
CodexKeywords == { TxtCodex, <<103, 112, 116>>, <<111, 112, 101, 110, 97, 105>> }

\* is_matching_channel that consults the keywords whatever the label says
is_matching_channel_keywords_too(svc, ai_type) ==
    LET label == Get(svc, "model_type_label", <<>>)
        model_type == Lower(IF label # <<>> THEN label
                            ELSE Get(svc, "model_type_code", <<>>))
        text == Lower(Get(svc, "model_name", <<>>)) \o <<ChSpace>>
                    \o Lower(Get(svc, "channel_name", <<>>))
    IN  \/ model_type = (IF ai_type = "claude" THEN TxtClaudeCode ELSE TxtCodex)
        \/ IF ai_type = "claude"
           THEN \E kw \in ClaudeKeywords : Contains(kw, text)
           ELSE \E kw \in CodexKeywords : Contains(kw, text)

\* normalize_health.is_matching_channel
is_matching_channel(svc, ai_type) ==
    LET label == Get(svc, "model_type_label", <<>>)
        model_type == Lower(IF label # <<>> THEN label
                            ELSE Get(svc, "model_type_code", <<>>))
        text == Lower(Get(svc, "model_name", <<>>)) \o <<ChSpace>>
                    \o Lower(Get(svc, "channel_name", <<>>))
    IN  IF model_type # <<>>
        THEN IF ai_type = "claude" THEN model_type = TxtClaudeCode
             ELSE model_type = TxtCodex
        ELSE IF ai_type = "claude"
             THEN \E kw \in ClaudeKeywords : Contains(kw, text)
             ELSE \E kw \in CodexKeywords : Contains(kw, text)

\* Python's truth of a JSON value.  Besides numbers, texts and null a value
\* is a list [t |-> "list", items |-> <<...>>] or a map, a record with
\* t |-> "map" and its keys; the map of the nodes of a block holds its values
\* in the order of the document, as items.
Truthy(v) ==
    CASE v.t = "int" -> v.v # 0
      [] v.t = "str" -> v.s # <<>>
      [] v.t = "null" -> FALSE
      [] v.t = "list" -> v.items # <<>>
      [] v.t = "map" -> "items" \notin DOMAIN v \/ v.items # <<>>

\* `tl = svc.get("timeline") or []` of both timeline parsers, which return
\* the empty list when tl is not a list
TimelineBlocks(svc) ==
    LET tl == Get(svc, "timeline", JNull)
    IN  IF tl.t = "list" THEN tl.items ELSE <<>>

\* normalize_health.parse_timeline_simple: the statuses of the results of the
\* first node of the first block
parse_timeline_simple(svc) ==
    LET blocks == TimelineBlocks(svc)
        nodes == IF blocks # <<>> /\ blocks[1].t = "map"
                 THEN Get(blocks[1], "nodes", JNull) ELSE JNull
        infos == IF nodes.t = "map" /\ "items" \in DOMAIN nodes
                 THEN SelectSeq(nodes.items, LAMBDA n : n.t = "map") ELSE <<>>
        results == IF infos = <<>> THEN <<>> ELSE Get(infos[1], "results", <<>>)
        recent == IF Len(results) <= ResultsLimit THEN results
                  ELSE SubSeq(results, Len(results) - ResultsLimit + 1, Len(results))
    IN  [i \in 1..Len(recent) |-> status_code_to_str(recent[i])]

\* The lists of a list of lists, one after the other: what repeated
\* list.extend and list.append build
RECURSIVE Concat(_)
Concat(lists) == IF lists = <<>> THEN <<>> ELSE Head(lists) \o Concat(Tail(lists))

\* The sum `+=` accumulates over a list of counters
RECURSIVE SumSeq(_)
SumSeq(counts) == IF counts = <<>> THEN 0 ELSE Head(counts) + SumSeq(Tail(counts))

\* normalize_health.parse_nodes_with_services: one record per probing node of
\* the timeline of a service, in the order of the node ids.  The availability
\* success / total is kept as its two counts.
parse_nodes_with_services(svc, service_name) ==
    LET Infos(nodes) ==
            IF nodes.t = "map" /\ "items" \in DOMAIN nodes
            THEN SelectSeq(nodes.items,
                           LAMBDA n : n.t = "map" /\ Get(n, "node_id", JNull).t = "int")
            ELSE <<>>
        BlockInfos(b) == Infos(IF b.t = "map" THEN Get(b, "nodes", JNull) ELSE JNull)
        AllInfos(blocks) == Concat([i \in 1..Len(blocks) |-> BlockInfos(blocks[i])])
        Sorted(S) == CHOOSE s \in [1..Cardinality(S) -> S] :
                         \A i, j \in 1..Cardinality(S) : i < j => s[i] < s[j]
        Count(c) == IF c.t = "int" THEN c.v ELSE 0
        Sum(mine, k) == SumSeq([i \in 1..Len(mine) |-> Count(Get(mine[i], k, JInt(0)))])
        Recent(all) == IF Len(all) <= ResultsLimit THEN all
                       ELSE SubSeq(all, Len(all) - ResultsLimit + 1, Len(all))
        Last(results) == IF results = <<>> THEN JNull ELSE results[Len(results)]
        RecentStatus(last) == IF last.t # "int" THEN TxtUnknown
                              ELSE CASE last.v = 1 -> TxtOk
                                     [] last.v = 2 -> TxtSlow
                                     [] last.v = 3 -> TxtError
                                     [] OTHER -> TxtUnknown
        Availability(success, total) == IF total > 0 THEN [success |-> success, total |-> total]
                                        ELSE [success |-> 0, total |-> 1]
        Service(results, success, total) ==
            [name |-> service_name, status |-> RecentStatus(Last(results)),
             availability |-> Availability(success, total), results |-> results]
        Name(zh, en) == IF zh # <<>> THEN zh ELSE en
        Node(id, mine) ==
            [node_id |-> id,
             node_name |-> Name(Get(mine[1], "node_name_zh", <<>>),
                                Get(mine[1], "node_name_en", <<>>)),
             service |-> Service(Recent(Concat([i \in 1..Len(mine) |->
                                                   Get(mine[i], "results", <<>>)])),
                                 Sum(mine, "count_success"), Sum(mine, "count_total"))]
        Nodes(infos, ids) ==
            [i \in 1..Len(ids) |->
                Node(ids[i], SelectSeq(infos, LAMBDA n : n.node_id.v = ids[i]))]
        SortedNodes(infos) ==
            Nodes(infos, Sorted({ infos[i].node_id.v : i \in 1..Len(infos) }))
    IN  SortedNodes(AllInfos(TimelineBlocks(svc)))

\* The entry normalize_health adds for one service record
ServiceEntry(svc) ==
    LET channel == Get(svc, "channel_name", <<>>)
        provider == Get(svc, "provider_name", <<>>)
    IN  [status |-> status_code_to_str(Get(svc, "status", JInt(0))),
         timeline |-> parse_timeline_simple(svc),
         model  |-> Get(svc, "model_name", <<>>),
         name   |-> IF channel # <<>> THEN channel ELSE Get(svc, "model_name", <<>>),
         group  |-> IF provider # <<>> THEN provider
                    ELSE Get(svc, "provider_code", <<>>)]

\* normalize_health.add_entry: the group an entry is filed under
EntryGroup(entry) == IF entry.group = <<>> THEN TxtUnknown ELSE entry.group

\* MatchingEntries that gives up at a record without a status
RECURSIVE MatchingEntries_until_incomplete(_, _)
MatchingEntries_until_incomplete(services, ai_type) ==
    IF services = <<>> \/ "status" \notin DOMAIN Head(services) THEN <<>>
    ELSE LET rest == MatchingEntries_until_incomplete(Tail(services), ai_type)
         IN  IF is_matching_channel(Head(services), ai_type)
             THEN <<ServiceEntry(Head(services))>> \o rest
             ELSE rest

\* The entries of the services of a document that match the kind, in order
RECURSIVE MatchingEntries(_, _)
MatchingEntries(services, ai_type) ==
    IF services = <<>> THEN <<>>
    ELSE LET rest == MatchingEntries(Tail(services), ai_type)
         IN  IF is_matching_channel(Head(services), ai_type)
             THEN <<ServiceEntry(Head(services))>> \o rest
             ELSE rest

\* normalize_health(data, ai_type): group -> list of entries.  A document
\* that is not a map, or whose "services" is not a list, gives the empty map.
normalize_health(data, ai_type) ==
    IF "services" \notin DOMAIN data THEN <<>>
    ELSE LET NodeEntries(matching) ==
                 Concat([i \in 1..Len(matching) |->
                            parse_nodes_with_services(matching[i],
                                                      ServiceEntry(matching[i]).name)])
             Sorted(S) == CHOOSE s \in [1..Cardinality(S) -> S] :
                              \A i, j \in 1..Cardinality(S) : i < j => s[i] < s[j]
             Aggregated(id, mine) ==
                 [node_id |-> id, node_name |-> mine[1].node_name,
                  services |-> [i \in 1..Len(mine) |-> mine[i].service]]
             NodesList(node_entries, ids) ==
                 [i \in 1..Len(ids) |->
                     Aggregated(ids[i],
                                SelectSeq(node_entries, LAMBDA ne : ne.node_id = ids[i]))]
             Aggregate(node_entries) ==
                 NodesList(node_entries,
                           Sorted({ node_entries[i].node_id : i \in 1..Len(node_entries) }))
             Groups(entries, nodes_list) ==
                 [g \in { EntryGroup(entries[i]) : i \in 1..Len(entries) }
                        \cup (IF nodes_list = <<>> THEN {} ELSE {TxtNodes}) |->
                     IF g = TxtNodes /\ nodes_list # <<>> THEN nodes_list
                     ELSE SelectSeq(entries, LAMBDA e : EntryGroup(e) = g)]
         IN  Groups(MatchingEntries(data.services, ai_type),
                    Aggregate(NodeEntries(SelectSeq(data.services,
                                  LAMBDA svc : is_matching_channel(svc, ai_type)))))

\* normalize_health raises: `current = svc.get("current_status") or {}` and
\* then current.get(...), for a service that matches the kind and whose
\* current_status is a value that is neither empty nor a map.  A service
\* record of the model carries the key current_status for such a value only;
\* the status of a current_status map is its key status.  It raises as well
\* in the timeline parsers: first_block.get(...) of parse_timeline_simple on
\* a first block that is no map, nodes.items() on a value that is neither
\* empty nor a map, and the addition of a counter that is no number.
normalize_raises(data, ai_type) ==
    /\ "services" \in DOMAIN data
    /\ \E i \in 1..Len(data.services) :
           LET svc == data.services[i]
               blocks == TimelineBlocks(svc)
               BadNodes(b) ==
                   /\ b.t = "map"
                   /\ Truthy(Get(b, "nodes", JNull))
                   /\ Get(b, "nodes", JNull).t # "map"
               BadCounter(b) ==
                   /\ b.t = "map"
                   /\ Get(b, "nodes", JNull).t = "map"
                   /\ "items" \in DOMAIN b.nodes
                   /\ \E j \in 1..Len(b.nodes.items) :
                          LET n == b.nodes.items[j]
                          IN  /\ n.t = "map"
                              /\ Get(n, "node_id", JNull).t # "null"
                              /\ \/ Get(n, "count_total", JInt(0)).t # "int"
                                 \/ Get(n, "count_success", JInt(0)).t # "int"
           IN  /\ is_matching_channel(svc, ai_type)
               /\ \/ "current_status" \in DOMAIN svc
                  \/ blocks # <<>> /\ blocks[1].t # "map"
                  \/ \E k \in 1..Len(blocks) : BadNodes(blocks[k]) \/ BadCounter(blocks[k])

\* Monitoring documents the endpoint may answer with
DocMixed ==
    [services |-> << [model_type_label |-> TxtClaudeCode, model_name |-> <<109>>,
                      provider_name |-> <<103>>, status |-> JInt(3)],
                     [model_name |-> <<103, 112, 116>>,
                      provider_name |-> <<103>>, status |-> JInt(2)],
                     [model_type_label |-> TxtCodex, model_name |-> <<110>>,
                      provider_name |-> <<71>>, status |-> JInt(1)] >>]
DocNoServices == [generated_at |-> JInt(0)]
\* A document of the map shape: named services, each with its status and the
\* time of its last check; it has no list under "services"
DocLegacy ==
    [claude |-> [status |-> JStr(TxtOk), lastCheck |-> JStr(<<49>>)],
     sonnet |-> [status |-> JStr(TxtError), lastCheck |-> JStr(<<50>>)]]

\* Documents of up to MaxServices service records of the list shape: records
\* of every status value, with timelines, with keys absent, of the other
\* kind, and with values of a wrong type
RecordDocs ==
    LET base == [model_type_label |-> TxtClaudeCode, model_name |-> <<109>>,
                 provider_name |-> <<103>>]
        With(r, k, v) == [x \in DOMAIN r \cup {k} |-> IF x = k THEN v ELSE r[x]]
        Node(results) == [t |-> "map", node_id |-> JInt(1), node_name_en |-> <<110>>,
                          results |-> results,
                          count_total |-> JInt(2), count_success |-> JInt(1)]
        Timeline(nodes) ==
            [t |-> "list", items |-> << [t |-> "map", nodes |-> nodes] >>]
        Nodes(items) == [t |-> "map", items |-> items]
        statuses == { JNull, JInt(0), JInt(1), JInt(2), JInt(3), JInt(9),
                      JStr(<<100, 111, 119, 110>>), JStr(<<>>) }
        timelines ==
            { Timeline(Nodes(<<Node(<<JInt(3), JInt(9), JInt(1)>>)>>)),
              Timeline(Nodes(<<Node(<<JInt(2), JNull, JStr(<<100, 111, 119, 110>>)>>)>>)),
              Timeline(Nodes(<<[t |-> "map"]>>)),
              Timeline(Nodes(<<JStr(<<120>>), Node(<<JInt(2)>>)>>)),
              Timeline(Nodes(<<[t |-> "map", node_id |-> JInt(1),
                                count_total |-> JNull]>>)),
              Timeline([t |-> "list", items |-> <<JInt(1)>>]),
              Timeline(JNull),
              [t |-> "list", items |-> <<JNull>>],
              JStr(<<120>>) }
        records ==
            { base, <<>>, [model_type_label |-> TxtClaudeCode],
              [model_type_label |-> TxtCodex, model_name |-> <<110>>,
               provider_name |-> <<103>>, status |-> JInt(1)],
              With(base, "current_status", JStr(<<117, 112>>)) }
            \cup { With(base, "status", s) : s \in statuses }
            \cup { With(With(base, "status", JInt(1)), "timeline", tl) : tl \in timelines }
    IN  { [services |-> services] :
              services \in UNION { [1..n -> records] : n \in 0..MaxServices } }

\* What one transport attempt comes to: the module cannot be imported, the
\* request raises, or a response with a status and a body (a document, or
\* text that is not JSON)
TxtTimedOut == <<116, 105, 109, 101, 100>>
NotJson == [not_json |-> TRUE]
HTTP_FORBIDDEN == 403
HTTP_OK == 200
ErrLimit == 60
AllTransportOutcomes ==
    { [kind |-> "import_error"], [kind |-> "raises", text |-> TxtTimedOut],
      [kind |-> "raises", text |-> [i \in 1..(ErrLimit + 1) |-> ChTilde]] }
    \cup { [kind |-> "response", status_code |-> HTTP_FORBIDDEN, body |-> NotJson] }
    \cup { [kind |-> "response", status_code |-> HTTP_OK, body |-> NotJson] }
    \cup { [kind |-> "response", status_code |-> HTTP_OK, body |-> d] :
               d \in { [services |-> << [model_type_label |-> TxtClaudeCode,
                                         model_name |-> <<109>>,
                                         provider_name |-> <<103>>,
                                         status |-> JInt(1)] >>],
                       DocMixed, DocNoServices,
                       [services |-> << [model_type_label |-> TxtClaudeCode,
                                         model_name |-> <<109>>,
                                         provider_name |-> <<103>>,
                                         current_status |-> JStr(<<117, 112>>)] >>],
                       DocLegacy } }

\* The outcomes the fetch threads of the console meet
TransportOutcomes ==
    { [kind |-> "raises", text |-> TxtTimedOut],
      [kind |-> "response", status_code |-> 200, body |-> DocMixed],
      [kind |-> "response", status_code |-> 200, body |-> DocNoServices] }

TxtHttpBlocked == <<72, 84, 84, 80>>
TxtInstall == <<105, 110, 115, 116, 97, 108, 108>>
TxtJsonError == <<69, 120, 112, 101, 99, 116, 105, 110, 103>>
TxtNoAttribute == <<39, 115, 116, 114, 39>>

\* fetch_health_status that returns the text of an exception whole
fetch_health_status_untruncated(primary, fallback, ai_type) ==
    IF primary.kind = "response" /\ primary.status_code = HTTP_OK
          /\ primary.body # NotJson /\ ~normalize_raises(primary.body, ai_type)
    THEN [health |-> normalize_health(primary.body, ai_type), err |-> <<>>,
          fallback_tried |-> FALSE]
    ELSE LET r == CASE fallback.kind = "import_error" ->
                          [health |-> <<>>, err |-> TxtInstall]
                     [] fallback.kind = "raises" ->
                          [health |-> <<>>, err |-> fallback.text]
                     [] fallback.kind = "response" ->
                          IF fallback.status_code # HTTP_OK
                          THEN [health |-> <<>>, err |-> TxtHttpBlocked]
                          ELSE IF fallback.body = NotJson
                          THEN [health |-> <<>>, err |-> TxtJsonError]
                          ELSE IF normalize_raises(fallback.body, ai_type)
                          THEN [health |-> <<>>, err |-> TxtNoAttribute]
                          ELSE [health |-> normalize_health(fallback.body, ai_type),
                                err |-> <<>>]
         IN  [health |-> r.health, err |-> r.err, fallback_tried |-> TRUE]

\* fetch_health_status that gives up when the first client did not succeed
fetch_health_status_no_fallback(primary, fallback, ai_type) ==
    IF primary.kind = "response" /\ primary.status_code = HTTP_OK
          /\ primary.body # NotJson /\ ~normalize_raises(primary.body, ai_type)
    THEN [health |-> normalize_health(primary.body, ai_type), err |-> <<>>,
          fallback_tried |-> FALSE]
    ELSE [health |-> <<>>, err |-> TxtHttpBlocked, fallback_tried |-> FALSE]

\* fetch_health_status(url, ai_type): (map, error_msg); the browser-emulating
\* client first, the plain client when the first did not return a result
fetch_health_status(primary, fallback, ai_type) ==
    IF primary.kind = "response" /\ primary.status_code = HTTP_OK
          /\ primary.body # NotJson /\ ~normalize_raises(primary.body, ai_type)
    THEN [health |-> normalize_health(primary.body, ai_type), err |-> <<>>,
          fallback_tried |-> FALSE]
    ELSE LET r == CASE fallback.kind = "import_error" ->
                          [health |-> <<>>, err |-> TxtInstall]
                     [] fallback.kind = "raises" ->
                          [health |-> <<>>, err |-> Take(fallback.text, ErrLimit)]
                     [] fallback.kind = "response" ->
                          IF fallback.status_code # HTTP_OK
                          THEN [health |-> <<>>, err |-> TxtHttpBlocked]
                          ELSE IF fallback.body = NotJson
                          THEN [health |-> <<>>, err |-> Take(TxtJsonError, ErrLimit)]
                          ELSE IF normalize_raises(fallback.body, ai_type)
                          THEN [health |-> <<>>, err |-> Take(TxtNoAttribute, ErrLimit)]
                          ELSE [health |-> normalize_health(fallback.body, ai_type),
                                err |-> <<>>]
         IN  [health |-> r.health, err |-> r.err, fallback_tried |-> TRUE]

\* --------------------------------------------------------------- the state
VARIABLES
    mode, ai_type, search, configs, filtered_idx, selected, scroll_offset,
    messages, health_map, settings, confirm_cfg, confirm_custom_key,
    health_loading, health_error, health_thread,
    settings_cursor, settings_editing, settings_input,
    custom_input_step, custom_input, custom_key_input,
    environ,        \* os.environ, restricted to the four variables of CONFIG_MAP
    shell_file,     \* the shell startup file written by env_service
    settings_file,  \* .tui_settings.json as last written by save_settings
    threads,        \* the fetch threads that are alive: id -> thread state
    running         \* the event loop: "running", "quit" or "crashed"

vars ==
    << mode, ai_type, search, configs, filtered_idx, selected, scroll_offset,
       messages, health_map, settings, confirm_cfg, confirm_custom_key,
       health_loading, health_error, health_thread,
       settings_cursor, settings_editing, settings_input,
       custom_input_step, custom_input, custom_key_input,
       environ, shell_file, settings_file, threads, running >>

\* The program state as one value: the TUI object (self) with the process
\* environment and the files it reaches.  The operations below map a state
\* to the state they leave.
Self ==
    [mode |-> mode, ai_type |-> ai_type, search |-> search, configs |-> configs,
     filtered_idx |-> filtered_idx, selected |-> selected,
     scroll_offset |-> scroll_offset, messages |-> messages,
     health_map |-> health_map, settings |-> settings, confirm_cfg |-> confirm_cfg,
     confirm_custom_key |-> confirm_custom_key, health_loading |-> health_loading,
     health_error |-> health_error, health_thread |-> health_thread,
     settings_cursor |-> settings_cursor, settings_editing |-> settings_editing,
     settings_input |-> settings_input, custom_input_step |-> custom_input_step,
     custom_input |-> custom_input, custom_key_input |-> custom_key_input,
     environ |-> environ, shell_file |-> shell_file, settings_file |-> settings_file,
     threads |-> threads, running |-> running]

\* The next state is w
Commit(w) ==
    /\ mode' = w.mode
    /\ ai_type' = w.ai_type
    /\ search' = w.search
    /\ configs' = w.configs
    /\ filtered_idx' = w.filtered_idx
    /\ selected' = w.selected
    /\ scroll_offset' = w.scroll_offset
    /\ messages' = w.messages
    /\ health_map' = w.health_map
    /\ settings' = w.settings
    /\ confirm_cfg' = w.confirm_cfg
    /\ confirm_custom_key' = w.confirm_custom_key
    /\ health_loading' = w.health_loading
    /\ health_error' = w.health_error
    /\ health_thread' = w.health_thread
    /\ settings_cursor' = w.settings_cursor
    /\ settings_editing' = w.settings_editing
    /\ settings_input' = w.settings_input
    /\ custom_input_step' = w.custom_input_step
    /\ custom_input' = w.custom_input
    /\ custom_key_input' = w.custom_key_input
    /\ environ' = w.environ
    /\ shell_file' = w.shell_file
    /\ settings_file' = w.settings_file
    /\ threads' = w.threads
    /\ running' = w.running

\* ------------------------------------------------------------ the message log
\* A log message: what it reports, with the values formatted into it
Message(tag, kind, n, text) == [tag |-> tag, kind |-> kind, n |-> n, text |-> text]
Note(tag) == Message(tag, "", 0, <<>>)

\* The last n elements of a sequence: s[-n:]
LastN(s, n) == IF Len(s) <= n THEN s ELSE SubSeq(s, Len(s) - n + 1, Len(s))

\* TUI._msg: append, and keep the most recent messages
_msg(w, m) == [w EXCEPT !.messages = LastN(Append(w.messages, m), MsgWindow)]

\* ----------------------------------------------------------- filter and load
\* The text of a profile with the case it was written in
TextBlobCased(cfg) == Get(cfg, "name", <<>>) \o <<ChSpace>> \o Get(cfg, "group", <<>>)

\* The text apply_filter searches in: name and group, lower-cased
TextBlob(cfg) ==
    Lower(Get(cfg, "name", <<>>) \o <<ChSpace>> \o Get(cfg, "group", <<>>))

\* The loop of apply_filter over configs[i..], with 0-based indices
RECURSIVE FilterFrom(_, _, _)
FilterFrom(cfgs, key, i) ==
    IF i >= Len(cfgs) THEN <<>>
    ELSE IF key # <<>> /\ ~Contains(key, TextBlob(cfgs[i + 1]))
         THEN FilterFrom(cfgs, key, i + 1)
         ELSE <<i>> \o FilterFrom(cfgs, key, i + 1)

\* apply_filter that leaves the selection where it was
apply_filter_keeps_selection(w) ==
    LET idx == FilterFrom(w.configs, Lower(w.search), 0)
        w1 == [w EXCEPT !.filtered_idx = idx]
        w2 == IF idx = <<>> /\ w.search # <<>> THEN _msg(w1, Note("search_no_match"))
              ELSE w1
    IN  [w2 EXCEPT !.scroll_offset = 0]

\* TUI.apply_filter
apply_filter(w) ==
    LET idx == FilterFrom(w.configs, Lower(w.search), 0)
        w1 == [w EXCEPT !.filtered_idx = idx, !.selected = 0]
        w2 == IF idx = <<>> /\ w.search # <<>> THEN _msg(w1, Note("search_no_match"))
              ELSE w1
    IN  [w2 EXCEPT !.scroll_offset = 0]

\* self._health_thread = None
NoThread == 0

\* An id for a new thread
NewThreadId(w) == CHOOSE i \in 1..MaxThreads : i \notin DOMAIN w.threads

\* refresh_health that starts a thread whether or not one is alive
refresh_health_unguarded(w) ==
    IF w.settings.health_url = <<>> THEN _msg(w, Note("skip_empty_url"))
    ELSE LET w1 == _msg([w EXCEPT !.health_loading = TRUE, !.health_error = <<>>],
                        Note("fetching"))
             id == NewThreadId(w)
         IN  [w1 EXCEPT !.health_thread = id,
                        !.threads = [i \in DOMAIN w.threads \cup {id} |->
                                        IF i = id
                                        THEN [pc |-> "fetch", ai_type |-> w.ai_type,
                                              health |-> <<>>, err |-> <<>>]
                                        ELSE w.threads[i]]]

\* TUI.refresh_health
refresh_health(w) ==
    IF w.settings.health_url = <<>> THEN _msg(w, Note("skip_empty_url"))
    ELSE IF w.health_thread \in DOMAIN w.threads THEN w
    ELSE LET w1 == _msg([w EXCEPT !.health_loading = TRUE, !.health_error = <<>>],
                        Note("fetching"))
             id == NewThreadId(w)
         IN  [w1 EXCEPT !.health_thread = id,
                        !.threads = [i \in DOMAIN w.threads \cup {id} |->
                                        IF i = id
                                        THEN [pc |-> "fetch", ai_type |-> w.ai_type,
                                              health |-> <<>>, err |-> <<>>]
                                        ELSE w.threads[i]]]

\* load_configs marks each custom profile: c["_custom"] = True
MarkCustom(c) == [k \in DOMAIN c \cup {"_custom"} |-> IF k = "_custom" THEN TRUE ELSE c[k]]

\* load_configs that keeps the list it had when the load fails
load_configs_keeps_list(w, loaded) ==
    LET w1 == IF loaded.ok
              THEN LET custom == [i \in 1..Len(w.settings.custom_configs[w.ai_type]) |->
                                     MarkCustom(w.settings.custom_configs[w.ai_type][i])]
                       wa == [w EXCEPT !.settings.custom_configs[w.ai_type] = custom,
                                       !.configs = loaded.configs \o custom]
                       wb == _msg(wa, Message("loaded", w.ai_type, Len(wa.configs), <<>>))
                   IN  refresh_health(wb)
              ELSE _msg(w, Note("load_error"))
    IN  [apply_filter(w1) EXCEPT !.scroll_offset = 0]

\* TUI.load_configs; `loaded` is what config_loader.load_configs comes to
load_configs(w, loaded) ==
    LET w1 == IF loaded.ok
              THEN LET custom == [i \in 1..Len(w.settings.custom_configs[w.ai_type]) |->
                                     MarkCustom(w.settings.custom_configs[w.ai_type][i])]
                       wa == [w EXCEPT !.settings.custom_configs[w.ai_type] = custom,
                                       !.configs = loaded.configs \o custom]
                       wb == _msg(wa, Message("loaded", w.ai_type, Len(wa.configs), <<>>))
                   IN  refresh_health(wb)
              ELSE _msg([w EXCEPT !.configs = <<>>], Note("load_error"))
    IN  [apply_filter(w1) EXCEPT !.scroll_offset = 0]

\* ---------------------------------------------------- core/env_service.py
\* str.splitlines() over text whose only line break is "\n": a line ends at
\* each "\n", and text after the last "\n" is a line of its own
SplitLines(text) ==
    LET breaks == { i \in 1..Len(text) : text[i] = ChNewline }
        nth(k) == CHOOSE i \in breaks : Cardinality({ j \in breaks : j <= i }) = k
        count == Cardinality(breaks)
                    + (IF text # <<>> /\ text[Len(text)] # ChNewline THEN 1 ELSE 0)
    IN  [k \in 1..count |->
            SubSeq(text,
                   IF k = 1 THEN 1 ELSE nth(k - 1) + 1,
                   IF k <= Cardinality(breaks) THEN nth(k) - 1 ELSE Len(text))]

\* "\n".join(lines)
RECURSIVE JoinLines(_)
JoinLines(lines) ==
    IF lines = <<>> THEN <<>>
    ELSE IF Len(lines) = 1 THEN lines[1]
         ELSE lines[1] \o <<ChNewline>> \o JoinLines(Tail(lines))

ChEquals == 61

\* should_keep(line) of write_permanent and remove_permanent
should_keep(line, keys) ==
    LET stripped == Strip(line)
    IN  \A k \in keys :
            /\ ~StartsWith(stripped, TxtExport \o k \o <<ChEquals>>)
            /\ ~StartsWith(stripped, k \o <<ChEquals>>)

\* f'export {k}="{v}"'
ExportLine(k, v) == TxtExport \o k \o <<ChEquals, ChQuote>> \o v \o <<ChQuote>>

\* The lines of the shell file as write_permanent reads them
ReadLines(file) == IF file.exists THEN SplitLines(file.text) ELSE <<>>

\* write_permanent that puts a blank line before the exports whatever the
\* last line it kept
write_permanent_always_separated(file, env_vars) ==
    LET keys == { env_vars[i][1] : i \in 1..Len(env_vars) }
        kept == SelectSeq(ReadLines(file), LAMBDA ln : should_keep(ln, keys))
        separated == IF kept # <<>> THEN Append(kept, <<>>) ELSE kept
        exports == [i \in 1..Len(env_vars) |-> ExportLine(env_vars[i][1], env_vars[i][2])]
    IN  [exists |-> TRUE, text |-> JoinLines(separated \o exports) \o <<ChNewline>>]

\* write_permanent that drops every export line of the file, whatever the
\* variable it assigns
write_permanent_clears_exports(file, env_vars) ==
    LET kept == SelectSeq(ReadLines(file), LAMBDA ln : ~StartsWith(Strip(ln), TxtExport))
        separated == IF kept # <<>> /\ Strip(kept[Len(kept)]) # <<>>
                     THEN Append(kept, <<>>) ELSE kept
        exports == [i \in 1..Len(env_vars) |-> ExportLine(env_vars[i][1], env_vars[i][2])]
    IN  [exists |-> TRUE, text |-> JoinLines(separated \o exports) \o <<ChNewline>>]

\* env_service.write_permanent(env_vars): the file it leaves.  env_vars is
\* the dict in insertion order, a sequence of <<key, value>>.
write_permanent(file, env_vars) ==
    LET keys == { env_vars[i][1] : i \in 1..Len(env_vars) }
        kept == SelectSeq(ReadLines(file), LAMBDA ln : should_keep(ln, keys))
        separated == IF kept # <<>> /\ Strip(kept[Len(kept)]) # <<>>
                     THEN Append(kept, <<>>) ELSE kept
        exports == [i \in 1..Len(env_vars) |-> ExportLine(env_vars[i][1], env_vars[i][2])]
    IN  [exists |-> TRUE, text |-> JoinLines(separated \o exports) \o <<ChNewline>>]

\* env_service.remove_permanent(keys): the file it leaves
remove_permanent(file, keys) ==
    LET kept == SelectSeq(ReadLines(file), LAMBDA ln : should_keep(ln, keys))
    IN  [exists |-> TRUE,
         text |-> JoinLines(kept) \o (IF kept # <<>> THEN <<ChNewline>> ELSE <<>>)]

\* A call raised: the exception leaves the handler and run(), which ends
\* the event loop
Raise(w) == [w EXCEPT !.running = "crashed"]

\* The call env_service.write_permanent(env_vars) made by the console;
\* io_ok is whether the file could be read and written
call_write_permanent(w, env_vars, io_ok) ==
    IF io_ok THEN [w EXCEPT !.shell_file = write_permanent(w.shell_file, env_vars)]
    ELSE Raise(w)

\* os.environ[k] = v for each item of env_vars
SetEnviron(env, env_vars) ==
    LET keys == { env_vars[i][1] : i \in 1..Len(env_vars) }
    IN  [k \in DOMAIN env \cup keys |->
            IF k \in keys
            THEN (CHOOSE p \in { env_vars[i] : i \in 1..Len(env_vars) } : p[1] = k)[2]
            ELSE env[k]]

\* save_settings(self.settings)
save_settings(w, io_ok) ==
    IF io_ok THEN [w EXCEPT !.settings_file = w.settings] ELSE Raise(w)

\* ------------------------------------------------------ console operations
\* max_y of stdscr.getmaxyx(): the height of the terminal
MaxY == 10
HeaderRows == 8
MinVisibleRows == 3

\* move without the clamp to the filtered list
move_unclamped(w, delta) ==
    IF w.filtered_idx = <<>> THEN w
    ELSE [w EXCEPT !.selected = w.selected + delta]

\* move that scrolls the window to start at the selection
move_scroll_to_selection(w, delta) ==
    IF w.filtered_idx = <<>> THEN w
    ELSE LET sel == Max2(0, Min2(w.selected + delta, Len(w.filtered_idx) - 1))
             visible_rows == Max2(MinVisibleRows, MaxY - HeaderRows)
         IN  [w EXCEPT !.selected = sel,
                       !.scroll_offset =
                           IF sel < w.scroll_offset \/ sel >= w.scroll_offset + visible_rows
                           THEN sel ELSE w.scroll_offset]

\* TUI.move
move(w, delta) ==
    IF w.filtered_idx = <<>> THEN w
    ELSE LET sel == Max2(0, Min2(w.selected + delta, Len(w.filtered_idx) - 1))
             visible_rows == Max2(MinVisibleRows, MaxY - HeaderRows)
         IN  [w EXCEPT !.selected = sel,
                       !.scroll_offset =
                           IF sel < w.scroll_offset THEN sel
                           ELSE IF sel >= w.scroll_offset + visible_rows
                                THEN sel - visible_rows + 1
                                ELSE w.scroll_offset]

\* TUI.toggle_ai
toggle_ai(w, loaded) ==
    load_configs([w EXCEPT !.ai_type = IF w.ai_type = "claude" THEN "codex" ELSE "claude",
                           !.search = <<>>], loaded)

\* TUI.prompt_search; typed is the line the operator enters
prompt_search(w, typed) == apply_filter([w EXCEPT !.search = Strip(typed)])

\* The "c" key of run(): clear the search
clear_search(w) == apply_filter([w EXCEPT !.search = <<>>])

\* TUI.current_cfg
current_cfg(w) ==
    IF w.filtered_idx = <<>> THEN None
    ELSE w.configs[w.filtered_idx[Min2(w.selected, Len(w.filtered_idx) - 1) + 1] + 1]

\* TUI._mask_key: the first and the last characters of a key
_mask_key(key) ==
    IF key = <<>> THEN <<40, 31354, 41>>
    ELSE IF Len(key) <= 16
    THEN IF Len(key) > 6
         THEN Take(key, 4) \o <<42, 42, 42>> \o SubSeq(key, Len(key) - 1, Len(key))
         ELSE <<42, 42, 42>>
    ELSE Take(key, 8) \o <<42, 42, 42>> \o SubSeq(key, Len(key) - 3, Len(key))

\* current_env that reports the last profile that matches
current_env_last_match(w) ==
    LET cfg_map == CONFIG_MAP[w.ai_type]
        token_env == Get(w.environ, cfg_map.env_token, <<>>)
        url_env == Get(w.environ, cfg_map.env_url, <<>>)
        matches == { i \in 1..Len(w.configs) :
                        /\ Get(w.configs[i], cfg_map.json_token, <<>>) = token_env
                        /\ Get(w.configs[i], cfg_map.json_url, <<>>) = url_env }
        custom == <<33258, 23450, 20041, 40>>
        \* re.search(r'https?://([^/]+)', url_env): the leftmost place where
        \* the pattern matches, and the host it captures
        Has(p, s) == p + Len(s) - 1 <= Len(url_env)
                         /\ SubSeq(url_env, p, p + Len(s) - 1) = s
        HostEnd(p) == IF \E q \in p..Len(url_env) : url_env[q] = 47
                      THEN (CHOOSE q \in p..Len(url_env) :
                                /\ url_env[q] = 47
                                /\ \A r \in p..(q - 1) : url_env[r] # 47) - 1
                      ELSE Len(url_env)
        HostAt(p) == IF Has(p, <<104, 116, 116, 112, 115, 58, 47, 47>>)
                          /\ HostEnd(p + 8) >= p + 8
                     THEN p + 8
                     ELSE IF Has(p, <<104, 116, 116, 112, 58, 47, 47>>)
                              /\ HostEnd(p + 7) >= p + 7
                     THEN p + 7 ELSE 0
        places == { p \in 1..Len(url_env) : HostAt(p) # 0 }
        domain == IF places = {} THEN Take(url_env, 20)
                  ELSE LET p == CHOOSE x \in places : \A y \in places : x <= y
                       IN  SubSeq(url_env, HostAt(p), HostEnd(HostAt(p)))
        key_short == IF token_env # <<>> THEN _mask_key(token_env)
                     ELSE <<26080, 75, 101, 121>>
        short == IF Len(token_env) > 8 THEN Take(token_env, 8) \o <<46, 46, 46>>
                 ELSE IF token_env # <<>> THEN token_env ELSE <<63>>
    IN  IF token_env = <<>> /\ url_env = <<>>
        THEN [text |-> <<26410, 37197, 32622>>, idx |-> None]
        ELSE IF matches # {}
        THEN LET i == CHOOSE x \in matches : \A y \in matches : x >= y
             IN  [text |-> Get(w.configs[i], "name", <<24050, 21305, 37197>>),
                  idx |-> i - 1]
        ELSE IF url_env # <<>>
        THEN [text |-> custom \o domain \o <<41, 32>> \o key_short, idx |-> None]
        ELSE [text |-> custom \o short \o <<41>>, idx |-> None]

\* TUI.current_env: (text, index) of the profile the environment variables
\* of the kind come from; the text is the name of the profile, the word for
\* unconfigured, or the word for custom with a part of the live values
current_env(w) ==
    LET cfg_map == CONFIG_MAP[w.ai_type]
        token_env == Get(w.environ, cfg_map.env_token, <<>>)
        url_env == Get(w.environ, cfg_map.env_url, <<>>)
        matches == { i \in 1..Len(w.configs) :
                        /\ Get(w.configs[i], cfg_map.json_token, <<>>) = token_env
                        /\ Get(w.configs[i], cfg_map.json_url, <<>>) = url_env }
        custom == <<33258, 23450, 20041, 40>>
        \* re.search(r'https?://([^/]+)', url_env): the leftmost place where
        \* the pattern matches, and the host it captures
        Has(p, s) == p + Len(s) - 1 <= Len(url_env)
                         /\ SubSeq(url_env, p, p + Len(s) - 1) = s
        HostEnd(p) == IF \E q \in p..Len(url_env) : url_env[q] = 47
                      THEN (CHOOSE q \in p..Len(url_env) :
                                /\ url_env[q] = 47
                                /\ \A r \in p..(q - 1) : url_env[r] # 47) - 1
                      ELSE Len(url_env)
        HostAt(p) == IF Has(p, <<104, 116, 116, 112, 115, 58, 47, 47>>)
                          /\ HostEnd(p + 8) >= p + 8
                     THEN p + 8
                     ELSE IF Has(p, <<104, 116, 116, 112, 58, 47, 47>>)
                              /\ HostEnd(p + 7) >= p + 7
                     THEN p + 7 ELSE 0
        places == { p \in 1..Len(url_env) : HostAt(p) # 0 }
        domain == IF places = {} THEN Take(url_env, 20)
                  ELSE LET p == CHOOSE x \in places : \A y \in places : x <= y
                       IN  SubSeq(url_env, HostAt(p), HostEnd(HostAt(p)))
        key_short == IF token_env # <<>> THEN _mask_key(token_env)
                     ELSE <<26080, 75, 101, 121>>
        short == IF Len(token_env) > 8 THEN Take(token_env, 8) \o <<46, 46, 46>>
                 ELSE IF token_env # <<>> THEN token_env ELSE <<63>>
    IN  IF token_env = <<>> /\ url_env = <<>>
        THEN [text |-> <<26410, 37197, 32622>>, idx |-> None]
        ELSE IF matches # {}
        THEN LET i == CHOOSE x \in matches : \A y \in matches : x <= y
             IN  [text |-> Get(w.configs[i], "name", <<24050, 21305, 37197>>),
                  idx |-> i - 1]
        ELSE IF url_env # <<>>
        THEN [text |-> custom \o domain \o <<41, 32>> \o key_short, idx |-> None]
        ELSE [text |-> custom \o short \o <<41>>, idx |-> None]

\* TUI.apply_config
apply_config(w) ==
    IF current_cfg(w) = None THEN _msg(w, Note("nothing_to_apply"))
    ELSE [w EXCEPT !.confirm_cfg = current_cfg(w), !.mode = MODE_CONFIRM]

\* The variables do_apply_config writes for the pending profile
ProfileEnvVars(w) ==
    LET cfg_map == CONFIG_MAP[w.ai_type]
    IN  << <<cfg_map.env_token, Get(w.confirm_cfg, cfg_map.json_token, <<>>)>>,
           <<cfg_map.env_url, Get(w.confirm_cfg, cfg_map.json_url, <<>>)>> >>

\* do_apply_config that sets the process variables before it writes the file
do_apply_config_env_first(w, io_ok) ==
    IF w.confirm_cfg = None THEN w
    ELSE LET env_vars == ProfileEnvVars(w)
             w1 == [w EXCEPT !.environ = SetEnviron(w.environ, env_vars)]
             w2 == call_write_permanent(w1, env_vars, io_ok)
             w3 == _msg(w2, Message("applied", "", 0, Get(w.confirm_cfg, "name", <<>>)))
             w4 == _msg(w3, Note("source_hint"))
         IN  IF w2.running = "crashed" THEN w2
             ELSE [w4 EXCEPT !.confirm_cfg = None, !.mode = MODE_LIST]

\* TUI.do_apply_config
do_apply_config(w, io_ok) ==
    IF w.confirm_cfg = None THEN w
    ELSE LET env_vars == ProfileEnvVars(w)
             w1 == call_write_permanent(w, env_vars, io_ok)
             w2 == [w1 EXCEPT !.environ = SetEnviron(w1.environ, env_vars)]
             w3 == _msg(w2, Message("applied", "", 0, Get(w.confirm_cfg, "name", <<>>)))
             w4 == _msg(w3, Note("source_hint"))
         IN  IF w1.running = "crashed" THEN w1
             ELSE [w4 EXCEPT !.confirm_cfg = None, !.mode = MODE_LIST]

ChLowerY == 121
ChUpperY == 89
ChLowerN == 110
ChUpperN == 78
ChLowerQ == 113
ChUpperQ == 81
ChLowerA == 97
ChLowerJ == 106
ChLowerK == 107
ChBackspace == 8
KEY_BACKSPACE == 263

\* handle_confirm_key where declining leaves the profile pending
handle_confirm_key_keeps_cfg(w, ch, io_ok) ==
    IF ch \in {ChLowerY, ChUpperY, KEY_ENTER} THEN do_apply_config(w, io_ok)
    ELSE IF ch \in {ChLowerN, ChUpperN, KEY_ESC}
         THEN [_msg(w, Note("cancel_apply")) EXCEPT !.mode = MODE_LIST]
         ELSE w

\* TUI.handle_confirm_key
handle_confirm_key(w, ch, io_ok) ==
    IF ch \in {ChLowerY, ChUpperY, KEY_ENTER} THEN do_apply_config(w, io_ok)
    ELSE IF ch \in {ChLowerN, ChUpperN, KEY_ESC}
         THEN [_msg(w, Note("cancel_apply")) EXCEPT !.confirm_cfg = None,
                                                     !.mode = MODE_LIST]
         ELSE w

\* TUI.clear_env
clear_env(w, permanent, io_ok) ==
    LET cfg_map == CONFIG_MAP[w.ai_type]
        keys == {cfg_map.env_token, cfg_map.env_url}
        w1 == [w EXCEPT !.environ = [k \in DOMAIN w.environ \ keys |-> w.environ[k]]]
    IN  IF permanent
        THEN IF io_ok
             THEN _msg(_msg([w1 EXCEPT !.shell_file = remove_permanent(w.shell_file, keys)],
                            Note("cleared_permanent")), Note("source_hint"))
             ELSE Raise(w1)
        ELSE _msg(w1, Message("cleared_process", w.ai_type, 0, <<>>))

\* TUI.enter_settings
enter_settings(w) ==
    [w EXCEPT !.mode = MODE_SETTINGS, !.settings_cursor = 0,
              !.settings_editing = FALSE, !.settings_input = <<>>]

\* The number of editable settings: keys = ["health_url"]
SettingsKeyCount == 1

\* handle_settings_key where Esc during an edit ends the edit only
handle_settings_key_esc_ends_edit(w, ch, io_ok) ==
    IF w.settings_editing /\ ch = KEY_ESC THEN [w EXCEPT !.settings_editing = FALSE]
    ELSE IF ch \in {ChLowerQ, ChUpperQ, KEY_ESC} THEN [w EXCEPT !.mode = MODE_LIST]
    ELSE IF w.settings_editing
    THEN IF ch = KEY_ENTER
         THEN IF w.settings_cursor < SettingsKeyCount
              THEN LET w1 == save_settings(
                                [w EXCEPT !.settings.health_url = w.settings_input], io_ok)
                   IN  IF w1.running = "crashed" THEN w1
                       ELSE [_msg(w1, Note("settings_saved")) EXCEPT
                                !.settings_editing = FALSE]
              ELSE [w EXCEPT !.settings_editing = FALSE]
         ELSE IF ch = KEY_ESC THEN [w EXCEPT !.settings_editing = FALSE]
         ELSE IF ch \in {KEY_BACKSPACE, KEY_DEL, ChBackspace}
              THEN [w EXCEPT !.settings_input = DropLast(w.settings_input)]
         ELSE IF Printable(ch)
              THEN [w EXCEPT !.settings_input = Append(w.settings_input, ch)]
         ELSE w
    ELSE IF ch \in {KEY_UP, ChLowerK}
         THEN [w EXCEPT !.settings_cursor = Max2(0, w.settings_cursor - 1)]
    ELSE IF ch \in {KEY_DOWN, ChLowerJ}
         THEN [w EXCEPT !.settings_cursor = Min2(0, w.settings_cursor + 1)]
    ELSE IF ch = KEY_ENTER
         THEN IF w.settings_cursor < SettingsKeyCount
              THEN [w EXCEPT !.settings_input = w.settings.health_url,
                             !.settings_editing = TRUE]
              ELSE w
    ELSE w

\* TUI.handle_settings_key
handle_settings_key(w, ch, io_ok) ==
    IF ch \in {ChLowerQ, ChUpperQ, KEY_ESC} THEN [w EXCEPT !.mode = MODE_LIST]
    ELSE IF w.settings_editing
    THEN IF ch = KEY_ENTER
         THEN IF w.settings_cursor < SettingsKeyCount
              THEN LET w1 == save_settings(
                                [w EXCEPT !.settings.health_url = w.settings_input], io_ok)
                   IN  IF w1.running = "crashed" THEN w1
                       ELSE [_msg(w1, Note("settings_saved")) EXCEPT
                                !.settings_editing = FALSE]
              ELSE [w EXCEPT !.settings_editing = FALSE]
         ELSE IF ch = KEY_ESC THEN [w EXCEPT !.settings_editing = FALSE]
         ELSE IF ch \in {KEY_BACKSPACE, KEY_DEL, ChBackspace}
              THEN [w EXCEPT !.settings_input = DropLast(w.settings_input)]
         ELSE IF Printable(ch)
              THEN [w EXCEPT !.settings_input = Append(w.settings_input, ch)]
         ELSE w
    ELSE IF ch \in {KEY_UP, ChLowerK}
         THEN [w EXCEPT !.settings_cursor = Max2(0, w.settings_cursor - 1)]
    ELSE IF ch \in {KEY_DOWN, ChLowerJ}
         THEN [w EXCEPT !.settings_cursor = Min2(0, w.settings_cursor + 1)]
    ELSE IF ch = KEY_ENTER
         THEN IF w.settings_cursor < SettingsKeyCount
              THEN [w EXCEPT !.settings_input = w.settings.health_url,
                             !.settings_editing = TRUE]
              ELSE w
    ELSE w

\* TUI.enter_add_custom
enter_add_custom(w) ==
    [w EXCEPT !.mode = MODE_ADD_CUSTOM, !.custom_input_step = 0,
              !.custom_input = [base_url |-> <<>>, key |-> <<>>, name |-> <<>>]]

\* keys[self.custom_input_step] of handle_add_custom_key
StepKey(step) == CASE step = 0 -> "base_url" [] step = 1 -> "key" [] OTHER -> "name"

LastStep == 2
ChZero == 48

\* The profile handle_add_custom_key builds from the input; the default name
\* is f"自定义-{n}" for a one-digit n
NewCustomConfig(w) ==
    LET cfg_map == CONFIG_MAP[w.ai_type]
        name == IF w.custom_input.name # <<>> THEN w.custom_input.name
                ELSE Append(<<33258, 23450, 20041, 45>>,
                            ChZero + Len(w.settings.custom_configs[w.ai_type]) + 1)
    IN  [k \in {cfg_map.json_url, cfg_map.json_token, "name"} |->
            IF k = cfg_map.json_url THEN w.custom_input.base_url
            ELSE IF k = cfg_map.json_token THEN w.custom_input.key
            ELSE name]

\* handle_add_custom_key that saves whatever was entered
handle_add_custom_key_unchecked(w, ch, io_ok, loaded) ==
    IF ch = KEY_ESC THEN _msg([w EXCEPT !.mode = MODE_LIST], Note("cancel_add"))
    ELSE IF ch = KEY_ENTER
    THEN IF w.custom_input_step < LastStep
         THEN [w EXCEPT !.custom_input_step = w.custom_input_step + 1]
         ELSE LET new_cfg == NewCustomConfig(w)
                  w1 == [w EXCEPT !.settings.custom_configs[w.ai_type] =
                                       Append(@, new_cfg)]
                  w2 == save_settings(w1, io_ok)
                  w3 == _msg(w2, Message("added", "", 0, new_cfg.name))
              IN  IF w2.running = "crashed" THEN w2
                  ELSE load_configs([w3 EXCEPT !.mode = MODE_LIST], loaded)
    ELSE IF ch \in {KEY_BACKSPACE, KEY_DEL, ChBackspace}
         THEN [w EXCEPT !.custom_input[StepKey(w.custom_input_step)] = DropLast(@)]
    ELSE IF Printable(ch)
         THEN [w EXCEPT !.custom_input[StepKey(w.custom_input_step)] = Append(@, ch)]
    ELSE w

\* handle_add_custom_key that adds the profile and does not save the settings
handle_add_custom_key_unsaved(w, ch, io_ok, loaded) ==
    IF ch = KEY_ESC THEN _msg([w EXCEPT !.mode = MODE_LIST], Note("cancel_add"))
    ELSE IF ch = KEY_ENTER
    THEN IF w.custom_input_step < LastStep
         THEN [w EXCEPT !.custom_input_step = w.custom_input_step + 1]
         ELSE IF w.custom_input.base_url = <<>> \/ w.custom_input.key = <<>>
              THEN _msg(w, Note("add_missing_field"))
              ELSE LET new_cfg == NewCustomConfig(w)
                       w1 == [w EXCEPT !.settings.custom_configs[w.ai_type] =
                                            Append(@, new_cfg)]
                       w3 == _msg(w1, Message("added", "", 0, new_cfg.name))
                   IN  load_configs([w3 EXCEPT !.mode = MODE_LIST], loaded)
    ELSE IF ch \in {KEY_BACKSPACE, KEY_DEL, ChBackspace}
         THEN [w EXCEPT !.custom_input[StepKey(w.custom_input_step)] = DropLast(@)]
    ELSE IF Printable(ch)
         THEN [w EXCEPT !.custom_input[StepKey(w.custom_input_step)] = Append(@, ch)]
    ELSE w

\* handle_add_custom_key that says nothing when a field is missing
handle_add_custom_key_silent(w, ch, io_ok, loaded) ==
    IF ch = KEY_ESC THEN _msg([w EXCEPT !.mode = MODE_LIST], Note("cancel_add"))
    ELSE IF ch = KEY_ENTER
    THEN IF w.custom_input_step < LastStep
         THEN [w EXCEPT !.custom_input_step = w.custom_input_step + 1]
         ELSE IF w.custom_input.base_url = <<>> \/ w.custom_input.key = <<>>
              THEN w
              ELSE LET new_cfg == NewCustomConfig(w)
                       w1 == [w EXCEPT !.settings.custom_configs[w.ai_type] =
                                            Append(@, new_cfg)]
                       w2 == save_settings(w1, io_ok)
                       w3 == _msg(w2, Message("added", "", 0, new_cfg.name))
                   IN  IF w2.running = "crashed" THEN w2
                       ELSE load_configs([w3 EXCEPT !.mode = MODE_LIST], loaded)
    ELSE IF ch \in {KEY_BACKSPACE, KEY_DEL, ChBackspace}
         THEN [w EXCEPT !.custom_input[StepKey(w.custom_input_step)] = DropLast(@)]
    ELSE IF Printable(ch)
         THEN [w EXCEPT !.custom_input[StepKey(w.custom_input_step)] = Append(@, ch)]
    ELSE w

\* TUI.handle_add_custom_key
handle_add_custom_key(w, ch, io_ok, loaded) ==
    IF ch = KEY_ESC THEN _msg([w EXCEPT !.mode = MODE_LIST], Note("cancel_add"))
    ELSE IF ch = KEY_ENTER
    THEN IF w.custom_input_step < LastStep
         THEN [w EXCEPT !.custom_input_step = w.custom_input_step + 1]
         ELSE IF w.custom_input.base_url = <<>> \/ w.custom_input.key = <<>>
              THEN _msg(w, Note("add_missing_field"))
              ELSE LET new_cfg == NewCustomConfig(w)
                       w1 == [w EXCEPT !.settings.custom_configs[w.ai_type] =
                                            Append(@, new_cfg)]
                       w2 == save_settings(w1, io_ok)
                       w3 == _msg(w2, Message("added", "", 0, new_cfg.name))
                   IN  IF w2.running = "crashed" THEN w2
                       ELSE load_configs([w3 EXCEPT !.mode = MODE_LIST], loaded)
    ELSE IF ch \in {KEY_BACKSPACE, KEY_DEL, ChBackspace}
         THEN [w EXCEPT !.custom_input[StepKey(w.custom_input_step)] = DropLast(@)]
    ELSE IF Printable(ch)
         THEN [w EXCEPT !.custom_input[StepKey(w.custom_input_step)] = Append(@, ch)]
    ELSE w

\* TUI.enter_custom_key
enter_custom_key(w) ==
    IF current_cfg(w) = None THEN _msg(w, Note("select_first"))
    ELSE [w EXCEPT !.mode = MODE_CUSTOM_KEY, !.custom_key_input = <<>>]

\* handle_custom_key that ignores Enter only when nothing was typed
handle_custom_key_unstripped(w, ch) ==
    IF ch = KEY_ESC THEN _msg([w EXCEPT !.mode = MODE_LIST], Note("cancel_custom_key"))
    ELSE IF ch = KEY_ENTER
    THEN IF w.custom_key_input = <<>> THEN w
         ELSE IF current_cfg(w) = None
              THEN [_msg(w, Note("nothing_to_apply")) EXCEPT !.mode = MODE_LIST]
              ELSE [w EXCEPT !.confirm_cfg = current_cfg(w),
                             !.confirm_custom_key = Strip(w.custom_key_input),
                             !.mode = MODE_CONFIRM_CUSTOM_KEY]
    ELSE IF ch \in {KEY_BACKSPACE, KEY_DEL, ChBackspace}
         THEN [w EXCEPT !.custom_key_input = DropLast(w.custom_key_input)]
    ELSE IF Printable(ch)
         THEN [w EXCEPT !.custom_key_input = Append(w.custom_key_input, ch)]
    ELSE w

\* TUI.handle_custom_key
handle_custom_key(w, ch) ==
    IF ch = KEY_ESC THEN _msg([w EXCEPT !.mode = MODE_LIST], Note("cancel_custom_key"))
    ELSE IF ch = KEY_ENTER
    THEN IF Strip(w.custom_key_input) = <<>> THEN w
         ELSE IF current_cfg(w) = None
              THEN [_msg(w, Note("nothing_to_apply")) EXCEPT !.mode = MODE_LIST]
              ELSE [w EXCEPT !.confirm_cfg = current_cfg(w),
                             !.confirm_custom_key = Strip(w.custom_key_input),
                             !.mode = MODE_CONFIRM_CUSTOM_KEY]
    ELSE IF ch \in {KEY_BACKSPACE, KEY_DEL, ChBackspace}
         THEN [w EXCEPT !.custom_key_input = DropLast(w.custom_key_input)]
    ELSE IF Printable(ch)
         THEN [w EXCEPT !.custom_key_input = Append(w.custom_key_input, ch)]
    ELSE w

\* The variables do_apply_custom_key writes
CustomKeyEnvVars(w) ==
    LET cfg_map == CONFIG_MAP[w.ai_type]
    IN  << <<cfg_map.env_token, w.confirm_custom_key>>,
           <<cfg_map.env_url, Get(w.confirm_cfg, cfg_map.json_url, <<>>)>> >>

\* TUI.do_apply_custom_key
do_apply_custom_key(w, io_ok) ==
    IF w.confirm_cfg = None THEN w
    ELSE LET env_vars == CustomKeyEnvVars(w)
             w1 == call_write_permanent(w, env_vars, io_ok)
             w2 == [w1 EXCEPT !.environ = SetEnviron(w1.environ, env_vars)]
             w3 == _msg(w2, Message("applied_custom_key", "", 0,
                                    Get(w.confirm_cfg, "name", <<>>)))
             w4 == _msg(w3, Note("source_hint"))
         IN  IF w1.running = "crashed" THEN w1
             ELSE [w4 EXCEPT !.confirm_cfg = None, !.confirm_custom_key = <<>>,
                             !.mode = MODE_LIST]

\* handle_confirm_custom_key where declining keeps the key that was typed
handle_confirm_custom_key_keeps_key(w, ch, io_ok) ==
    IF ch \in {ChLowerY, ChUpperY, KEY_ENTER} THEN do_apply_custom_key(w, io_ok)
    ELSE IF ch \in {ChLowerN, ChUpperN, KEY_ESC}
         THEN [_msg(w, Note("cancel_custom_apply")) EXCEPT
                  !.confirm_cfg = None, !.mode = MODE_LIST]
         ELSE w

\* TUI.handle_confirm_custom_key
handle_confirm_custom_key(w, ch, io_ok) ==
    IF ch \in {ChLowerY, ChUpperY, KEY_ENTER} THEN do_apply_custom_key(w, io_ok)
    ELSE IF ch \in {ChLowerN, ChUpperN, KEY_ESC}
         THEN [_msg(w, Note("cancel_custom_apply")) EXCEPT
                  !.confirm_cfg = None, !.confirm_custom_key = <<>>, !.mode = MODE_LIST]
         ELSE w

\* --------------------------------------------------------- the fetch thread
\* A thread that clears the loading flag as soon as the transport has
\* answered, before it assigns the snapshot
fetch_call_clears_loading(w, id, primary, fallback) ==
    LET r == fetch_health_status(primary, fallback, w.threads[id].ai_type)
    IN  [w EXCEPT !.health_loading = FALSE,
                  !.threads[id] = [pc |-> "publish", ai_type |-> @.ai_type,
                                   health |-> r.health, err |-> r.err]]

\* _fetch, first statement: health, err = fetch_health_status(url, ai_type)
fetch_call(w, id, primary, fallback) ==
    LET r == fetch_health_status(primary, fallback, w.threads[id].ai_type)
    IN  [w EXCEPT !.threads[id] = [pc |-> "publish", ai_type |-> @.ai_type,
                                   health |-> r.health, err |-> r.err]]

\* A publish that merges the result into the snapshot it finds
fetch_publish_merged(w, id) ==
    LET new == w.threads[id].health
    IN  [w EXCEPT !.health_map = [g \in DOMAIN w.health_map \cup DOMAIN new |->
                                     IF g \in DOMAIN new THEN new[g] ELSE w.health_map[g]],
                  !.threads[id].pc = "clear"]

\* A publish that puts the console back to the kind the fetch was for
fetch_publish_restores_kind(w, id) ==
    [w EXCEPT !.health_map = w.threads[id].health, !.threads[id].pc = "clear",
              !.ai_type = w.threads[id].ai_type]

\* _fetch: self.health_map = health
fetch_publish(w, id) ==
    [w EXCEPT !.health_map = w.threads[id].health, !.threads[id].pc = "clear"]

\* A thread that goes on to its report with the loading flag as it is
fetch_clear_loading_skipped(w, id) ==
    [w EXCEPT !.threads[id].pc = "report"]

\* _fetch: self.health_loading = False
fetch_clear_loading(w, id) ==
    [w EXCEPT !.health_loading = FALSE, !.threads[id].pc = "report"]

\* An end of the thread that runs the refresh again, as if requests that
\* came during the fetch had been kept
fetch_report_requeued(w, id) ==
    LET th == w.threads[id]
        w1 == IF th.err # <<>>
              THEN _msg([w EXCEPT !.health_error = Take(th.err, ErrLimit)],
                        Message("fetch_failed", "", 0, Take(th.err, ErrLimit)))
              ELSE IF th.health = <<>> THEN _msg(w, Note("fetch_empty"))
              ELSE _msg(w, Message("fetched", "", Cardinality(DOMAIN th.health), <<>>))
    IN  refresh_health([w1 EXCEPT !.threads = [i \in DOMAIN w.threads \ {id} |-> w.threads[i]]])

\* _fetch: the closing if/elif/else, after which the thread ends
fetch_report(w, id) ==
    LET th == w.threads[id]
        w1 == IF th.err # <<>>
              THEN _msg([w EXCEPT !.health_error = Take(th.err, ErrLimit)],
                        Message("fetch_failed", "", 0, Take(th.err, ErrLimit)))
              ELSE IF th.health = <<>> THEN _msg(w, Note("fetch_empty"))
              ELSE _msg(w, Message("fetched", "", Cardinality(DOMAIN th.health), <<>>))
    IN  [w1 EXCEPT !.threads = [i \in DOMAIN w.threads \ {id} |-> w.threads[i]]]

\* _fetch: the closing if/elif/else statement by statement.  The thread's
\* call of _msg is three steps between which the main loop runs: the append,
\* the test of the length with the reading of self.messages[-50:], and the
\* assignment of what was read to self.messages.
fetch_report_step(w, id) ==
    LET th == w.threads[id]
        ended == [w EXCEPT !.threads = [i \in DOMAIN w.threads \ {id} |-> w.threads[i]]]
        text == IF th.err # <<>> THEN Message("fetch_failed", "", 0, Take(th.err, ErrLimit))
                ELSE IF th.health = <<>> THEN Note("fetch_empty")
                ELSE Message("fetched", "", Cardinality(DOMAIN th.health), <<>>)
    IN  CASE th.pc = "report" ->
                 [w EXCEPT !.health_error = IF th.err # <<>> THEN Take(th.err, ErrLimit) ELSE @,
                           !.messages = Append(@, text),
                           !.threads[id].pc = "report_len"]
          [] th.pc = "report_len" ->
                 IF Len(w.messages) > MsgWindow
                 THEN [w EXCEPT !.threads[id] =
                                    [pc |-> "report_store", ai_type |-> th.ai_type,
                                     health |-> th.health, err |-> th.err,
                                     kept |-> LastN(w.messages, MsgWindow)]]
                 ELSE ended
          [] OTHER -> [ended EXCEPT !.messages = th.kept]

\* ------------------------------------------------------------------- Init
NoFile == [exists |-> FALSE, text |-> <<>>]

\* TUI.__init__ up to its call of load_configs; url is settings["health_url"]
\* as load_settings returns it
NewTUI(url, env, file) ==
    [mode |-> MODE_LIST, ai_type |-> "claude", search |-> <<>>, configs |-> <<>>,
     filtered_idx |-> <<>>, selected |-> 0, scroll_offset |-> 0, messages |-> <<>>,
     health_map |-> <<>>,
     settings |-> [health_url |-> url, custom_configs |-> [k \in Kinds |-> <<>>]],
     confirm_cfg |-> None, confirm_custom_key |-> <<>>,
     health_loading |-> FALSE, health_error |-> <<>>, health_thread |-> NoThread,
     settings_cursor |-> 0, settings_editing |-> FALSE, settings_input |-> <<>>,
     custom_input_step |-> 0,
     custom_input |-> [base_url |-> <<>>, key |-> <<>>, name |-> <<>>],
     custom_key_input |-> <<>>,
     environ |-> env, shell_file |-> file, settings_file |-> NoFile,
     threads |-> <<>>, running |-> "running"]

\* The state `w` as the values of the variables
StateIs(w) ==
    /\ mode = w.mode
    /\ ai_type = w.ai_type
    /\ search = w.search
    /\ configs = w.configs
    /\ filtered_idx = w.filtered_idx
    /\ selected = w.selected
    /\ scroll_offset = w.scroll_offset
    /\ messages = w.messages
    /\ health_map = w.health_map
    /\ settings = w.settings
    /\ confirm_cfg = w.confirm_cfg
    /\ confirm_custom_key = w.confirm_custom_key
    /\ health_loading = w.health_loading
    /\ health_error = w.health_error
    /\ health_thread = w.health_thread
    /\ settings_cursor = w.settings_cursor
    /\ settings_editing = w.settings_editing
    /\ settings_input = w.settings_input
    /\ custom_input_step = w.custom_input_step
    /\ custom_input = w.custom_input
    /\ custom_key_input = w.custom_key_input
    /\ environ = w.environ
    /\ shell_file = w.shell_file
    /\ settings_file = w.settings_file
    /\ threads = w.threads
    /\ running = w.running

\* The console as constructed: __init__ ends with load_configs()
Started(url, env, file, loaded) == StateIs(load_configs(NewTUI(url, env, file), loaded))

\* A shell startup file with the given text
File(text) == [exists |-> TRUE, text |-> text]

Init ==
    \E url \in {<<>>, <<104>>}, loaded \in LoadOutcomes("claude") :
        Started(url, <<>>, NoFile, loaded)

\* ----------------------------------------------------------- status display
\* The status names _status_icon and _choose_status know, and three they do
\* not tell apart from an unknown one
StatusNames ==
    [error |-> TxtError, failed |-> <<102, 97, 105, 108, 101, 100>>,
     slow |-> TxtSlow, degraded |-> <<100, 101, 103, 114, 97, 100, 101, 100>>,
     ok |-> TxtOk,
     operational |-> <<111, 112, 101, 114, 97, 116, 105, 111, 110, 97, 108>>,
     unknown |-> TxtUnknown, timeout |-> <<116, 105, 109, 101, 111, 117, 116>>,
     capital_error |-> <<69, 114, 114, 111, 114>>, down |-> <<100, 111, 119, 110>>]

\* TUI._status_icon: (icon, colour pair) of a status; the icon is the filled
\* or the hollow circle
_status_icon(status) ==
    LET st == Lower(IF status = <<>> THEN TxtUnknown ELSE status)
    IN  IF st \in {StatusNames.ok, StatusNames.operational}
        THEN [icon |-> "filled", color |-> 5]
        ELSE IF st = StatusNames.slow THEN [icon |-> "filled", color |-> 4]
        ELSE IF st \in {StatusNames.error, StatusNames.timeout, StatusNames.failed}
        THEN [icon |-> "filled", color |-> 6]
        ELSE [icon |-> "hollow", color |-> 1]

\* _choose_status that keeps the entry of the highest score
_choose_status_optimistic(entries) ==
    LET severity(st) ==
            CASE st \in {StatusNames.error, StatusNames.failed} -> 0
              [] st = StatusNames.slow -> 1
              [] st = StatusNames.degraded -> 2
              [] st \in {StatusNames.ok, StatusNames.operational} -> 3
              [] st = StatusNames.unknown -> 4
              [] OTHER -> 99
        RECURSIVE Best(_, _, _)
        Best(i, best_st, best_score) ==
            IF i > Len(entries) THEN best_st
            ELSE LET st == Lower(entries[i].status)
                     score == severity(st)
                 IN  IF score > best_score THEN Best(i + 1, st, score)
                     ELSE Best(i + 1, best_st, best_score)
    IN  IF entries = <<>> THEN [icon |-> "hollow", color |-> 1]
        ELSE _status_icon(Best(1, TxtUnknown, 0 - 1))

\* TUI._choose_status: the display of the entries of one group
_choose_status(entries) ==
    LET severity(st) ==
            CASE st \in {StatusNames.error, StatusNames.failed} -> 0
              [] st = StatusNames.slow -> 1
              [] st = StatusNames.degraded -> 2
              [] st \in {StatusNames.ok, StatusNames.operational} -> 3
              [] st = StatusNames.unknown -> 4
              [] OTHER -> 99
        RECURSIVE Best(_, _, _)
        Best(i, best_st, best_score) ==
            IF i > Len(entries) THEN best_st
            ELSE LET st == Lower(entries[i].status)
                     score == severity(st)
                 IN  IF score < best_score THEN Best(i + 1, st, score)
                     ELSE Best(i + 1, best_st, best_score)
    IN  IF entries = <<>> THEN [icon |-> "hollow", color |-> 1]
        ELSE _status_icon(Best(1, TxtUnknown, 99))

\* TUI._group_entries: the entries of the snapshot for the group of a profile
_group_entries(w, cfg) ==
    LET group == Get(cfg, "group", <<>>)
    IN  IF group # <<>> THEN Get(w.health_map, group, <<>>) ELSE <<>>

\* TUI.get_status_for(real_idx): what the list shows next to a profile
get_status_for(w, real_idx) ==
    IF real_idx >= Len(w.configs) THEN [icon |-> "hollow", color |-> 1]
    ELSE _choose_status(_group_entries(w, w.configs[real_idx + 1]))

\* ---------------------------------------------------------------- actions
\* run(): a key read in a mode other than the list goes to the handler of
\* the mode
run_mode_key(w, ch, io_ok, loaded) ==
    CASE w.mode = MODE_SETTINGS -> handle_settings_key(w, ch, io_ok)
      [] w.mode = MODE_ADD_CUSTOM -> handle_add_custom_key(w, ch, io_ok, loaded)
      [] w.mode = MODE_CUSTOM_KEY -> handle_custom_key(w, ch)
      [] w.mode = MODE_CONFIRM -> handle_confirm_key(w, ch, io_ok)
      [] w.mode = MODE_CONFIRM_CUSTOM_KEY -> handle_confirm_custom_key(w, ch, io_ok)
      [] OTHER -> w

\* The step of run() that reads key ch in a mode other than the list
ModeKey(ch, io_ok, loaded) == Commit(run_mode_key(Self, ch, io_ok, loaded))

\* One iteration of run() that reads a key, by mode and key
Running == running = "running"
InList == Running /\ mode = MODE_LIST
MayStartThread == Cardinality(DOMAIN threads) < MaxThreads
OtherKind == IF ai_type = "claude" THEN "codex" ELSE "claude"

Quit == InList /\ Commit([Self EXCEPT !.running = "quit"])
MoveUp == InList /\ Commit(move(Self, -1))
MoveDown == InList /\ Commit(move(Self, 1))
EnterCustomKey == InList /\ Commit(enter_custom_key(Self))
ApplyConfig == InList /\ Commit(apply_config(Self))
ToggleAi ==
    /\ InList /\ MayStartThread
    /\ \E loaded \in LoadOutcomes(OtherKind) : Commit(toggle_ai(Self, loaded))

PromptSearch ==
    InList /\ \E typed \in { <<97>>, <<66>>, <<122>>, <<ChSpace>> } :
                  Commit(prompt_search(Self, typed))
ClearSearch == InList /\ Commit(clear_search(Self))
Reload ==
    /\ InList /\ MayStartThread
    /\ \E loaded \in LoadOutcomes(ai_type) : Commit(load_configs(Self, loaded))
EnterSettings == InList /\ Commit(enter_settings(Self))
EnterAddCustom == InList /\ Commit(enter_add_custom(Self))
ClearEnv ==
    InList /\ \E permanent \in BOOLEAN, io_ok \in BOOLEAN :
                  Commit(clear_env(Self, permanent, io_ok))

\* The keys pressed in each of the other modes
AddCustomKeys == {KEY_ESC, KEY_ENTER, KEY_DEL, ChLowerA}
ConfirmKeys == {ChLowerY, KEY_ENTER, ChLowerN, KEY_ESC, ChLowerA}

\* The input buffers are bounded: a character is typed while there is room
Room(buffer, ch) == Printable(ch) => Len(buffer) < MaxInput

\* What a load comes to when the handler does not load
NotLoaded == [ok |-> FALSE, configs |-> <<>>]

HandleSettingsKey ==
    /\ Running /\ mode = MODE_SETTINGS
    /\ \E ch \in {KEY_ESC, ChLowerQ, KEY_ENTER, KEY_DEL, ChLowerA, KEY_UP, KEY_DOWN},
          io_ok \in BOOLEAN :
          /\ settings_editing => Room(settings_input, ch)
          /\ ModeKey(ch, io_ok, NotLoaded)

HandleAddCustomKey ==
    /\ Running /\ mode = MODE_ADD_CUSTOM /\ MayStartThread
    /\ \E ch \in AddCustomKeys, io_ok \in BOOLEAN, loaded \in LoadOutcomes(ai_type) :
          /\ Room(custom_input[StepKey(custom_input_step)], ch)
          /\ (ch = KEY_ENTER /\ custom_input_step = LastStep)
                 => Len(settings.custom_configs["claude"])
                        + Len(settings.custom_configs["codex"]) < MaxCustom
          /\ ModeKey(ch, io_ok, loaded)

HandleCustomKey ==
    /\ Running /\ mode = MODE_CUSTOM_KEY
    /\ \E ch \in {KEY_ESC, KEY_ENTER, KEY_DEL, ChLowerA, ChSpace} :
          /\ Room(custom_key_input, ch)
          /\ ModeKey(ch, TRUE, NotLoaded)

\* The shell file is bounded: a profile is applied while it is short
FileRoom == Len(ReadLines(shell_file)) <= MaxFileLines

HandleConfirmKey ==
    /\ Running /\ mode = MODE_CONFIRM /\ FileRoom
    /\ \E ch \in ConfirmKeys, io_ok \in BOOLEAN : ModeKey(ch, io_ok, NotLoaded)

HandleConfirmCustomKey ==
    /\ Running /\ mode = MODE_CONFIRM_CUSTOM_KEY /\ FileRoom
    /\ \E ch \in ConfirmKeys, io_ok \in BOOLEAN : ModeKey(ch, io_ok, NotLoaded)

\* The steps of a fetch thread
ThreadAt(id, pc) == Running /\ id \in DOMAIN threads /\ threads[id].pc = pc

FetchCall ==
    \E id \in 1..MaxThreads, primary \in TransportOutcomes, fallback \in TransportOutcomes :
        ThreadAt(id, "fetch") /\ Commit(fetch_call(Self, id, primary, fallback))
\* The call of fetch_health_status with every outcome of the two transports
FetchCallAny ==
    \E id \in 1..MaxThreads, primary \in AllTransportOutcomes,
       fallback \in AllTransportOutcomes :
        ThreadAt(id, "fetch") /\ Commit(fetch_call(Self, id, primary, fallback))
FetchPublish ==
    \E id \in 1..MaxThreads : ThreadAt(id, "publish") /\ Commit(fetch_publish(Self, id))
FetchClearLoading ==
    \E id \in 1..MaxThreads : ThreadAt(id, "clear") /\ Commit(fetch_clear_loading(Self, id))
FetchReport ==
    \E id \in 1..MaxThreads : ThreadAt(id, "report") /\ Commit(fetch_report(Self, id))

\* The end of a fetch thread, one statement of its _msg at a time
FetchReportStep ==
    \E id \in 1..MaxThreads :
        /\ Running /\ id \in DOMAIN threads
        /\ threads[id].pc \in {"report", "report_len", "report_store"}
        /\ Commit(fetch_report_step(Self, id))

\* The call of fetch_health_status by thread id, answered with the document
FetchAnswer(id, doc) ==
    LET answer == [kind |-> "response", status_code |-> HTTP_OK, body |-> doc]
    IN  ThreadAt(id, "fetch") /\ Commit(fetch_call(Self, id, answer, answer))

\* Service records over the fields is_matching_channel reads: the type label
\* (absent, empty, of either kind, in capitals, another), the type code, the
\* model name (absent, with a keyword of either kind, in capitals, ending in
\* "cc", without keyword) and the channel name
LabelRecords ==
    LET With(r, k, v) == [x \in DOMAIN r \cup {k} |-> IF x = k THEN v ELSE r[x]]
        Opt(r, k, values) == {r} \cup { With(r, k, v) : v \in values }
        labels == { <<>>, TxtClaudeCode, TxtCodex,
                    <<67, 108, 97, 117, 100, 101, 95, 67, 111, 100, 101>>, <<120>> }
        names == { <<99, 108, 97, 117, 100, 101>>, <<71, 80, 84>>, <<99, 99>>, <<109>> }
        r1 == Opt([status |-> JInt(1)], "model_type_label", labels)
        r2 == UNION { Opt(r, "model_type_code", {TxtCodex}) : r \in r1 }
        r3 == UNION { Opt(r, "model_name", names) : r \in r2 }
    IN  UNION { Opt(r, "channel_name", {<<111, 112, 117, 115>>}) : r \in r3 }

\* The call of fetch_health_status answered with a document of service
\* records, or of one of the labelled records
FetchCallRecords ==
    \E id \in 1..MaxThreads,
       doc \in RecordDocs \cup { [services |-> <<rec>>] : rec \in LabelRecords } :
        FetchAnswer(id, doc)

\* The call of fetch_health_status answered with a document of up to
\* MaxEntries services of one provider, of every status text
FetchCallStatuses ==
    \E id \in 1..MaxThreads, n \in 0..MaxEntries :
      \E statuses \in [1..n -> {StatusNames[k] : k \in DOMAIN StatusNames}] :
        LET doc == [services |->
                       [i \in 1..n |-> [model_type_label |-> TxtClaudeCode,
                                        model_name |-> <<109>>,
                                        provider_name |-> <<103>>,
                                        status |-> JStr(statuses[i])]]]
            answer == [kind |-> "response", status_code |-> HTTP_OK, body |-> doc]
        IN  ThreadAt(id, "fetch") /\ Commit(fetch_call(Self, id, answer, answer))

\* ---------------------------------------------------------- specifications
\* The console: the mode state machine, every mode and every key of a mode
Next ==
    \/ EnterCustomKey \/ ApplyConfig \/ EnterSettings \/ EnterAddCustom
    \/ HandleSettingsKey \/ HandleAddCustomKey \/ HandleCustomKey
    \/ HandleConfirmKey \/ HandleConfirmCustomKey

Spec == Init /\ [][Next]_vars

\* The list: selection, search, reload, kind toggle and the add-profile flow
NextList ==
    \/ Quit \/ MoveUp \/ MoveDown \/ PromptSearch \/ ClearSearch \/ Reload \/ ToggleAi
    \/ EnterAddCustom \/ HandleAddCustomKey

SpecList == Init /\ [][NextList]_vars

\* The Health Poller: the requests of the main loop and the fetch threads
NextPoller ==
    \/ Reload \/ ToggleAi \/ EnterAddCustom \/ HandleAddCustomKey
    \/ FetchCall \/ FetchPublish \/ FetchClearLoading \/ FetchReport

SpecPoller == Init /\ [][NextPoller]_vars

\* The Health Poller with a fetch thread that is scheduled as long as it has
\* a step to take, and a transport that answers or times out
SpecPollerFair ==
    /\ SpecPoller
    /\ WF_vars(FetchCall) /\ WF_vars(FetchPublish)
    /\ WF_vars(FetchClearLoading) /\ WF_vars(FetchReport)

\* The confirmation flows and the Environment Applier, for both kinds
NextConfirm ==
    \/ MoveUp \/ MoveDown \/ ToggleAi \/ ApplyConfig \/ EnterCustomKey \/ HandleCustomKey
    \/ HandleConfirmKey \/ HandleConfirmCustomKey \/ ClearEnv

InitConfirm ==
    \E file \in { NoFile, File(<<97>>) }, loaded \in LoadOutcomes("claude") :
        Started(<<>>, <<>>, file, loaded)

SpecConfirm == InitConfirm /\ [][NextConfirm]_vars

\* The add-profile flow with reloads and the fetch threads
NextAdd ==
    \/ Reload \/ EnterAddCustom \/ HandleAddCustomKey
    \/ FetchCall \/ FetchPublish \/ FetchClearLoading \/ FetchReport

SpecAdd == Init /\ [][NextAdd]_vars

\* Applying profiles over shell files of every shape: none, empty, without a
\* final line break, ending in a blank line, and with lines that already
\* assign the variables
InitApply ==
    \E file \in { NoFile, File(<<>>), File(<<97>>), File(<<99, ChNewline, ChNewline>>),
                  File(JoinLines(<< ExportLine(TxtAnthropicAuthToken, <<48>>), <<98>>,
                                    TxtAnthropicBaseUrl \o <<ChEquals, 49>> >>)
                           \o <<ChNewline>>) },
       loaded \in LoadOutcomes("claude") :
        Started(<<>>, <<>>, file, loaded)

NextApply == MoveUp \/ MoveDown \/ ApplyConfig \/ HandleConfirmKey \/ ClearEnv

SpecApply == InitApply /\ [][NextApply]_vars

\* The active profile: the console started with the variables of the kind
\* unset or set to values of every length, and a custom profile in the
\* settings that repeats the first stored one
InitEnv ==
    LET tokens == { <<>>, <<49>>, <<51>>, [i \in 1..7 |-> 64 + i],
                    [i \in 1..9 |-> 64 + i], [i \in 1..17 |-> 64 + i] }
        urls == { <<>>, <<117>>, <<118>>,
                  <<104, 116, 116, 112, 58, 47, 47, 97, 46, 98, 47, 99>>,
                  <<120, 104, 116, 116, 112, 115, 58, 47, 47, 47, 104, 116, 116, 112,
                    58, 47, 47, 100>>,
                  [i \in 1..21 |-> 96 + i] }
        repeated == [name |-> <<100>>, token |-> <<49>>, url |-> <<117>>]
    IN  \E token \in tokens, url \in urls, loaded \in LoadOutcomes("claude") :
            LET env == [k \in (IF token = <<>> THEN {} ELSE {TxtAnthropicAuthToken})
                              \cup (IF url = <<>> THEN {} ELSE {TxtAnthropicBaseUrl}) |->
                           IF k = TxtAnthropicAuthToken THEN token ELSE url]
                w == [NewTUI(<<>>, env, NoFile) EXCEPT
                         !.settings.custom_configs["claude"] = <<repeated>>]
            IN  StateIs(load_configs(w, loaded))

NextEnv == MoveDown \/ ApplyConfig \/ HandleConfirmKey \/ ToggleAi \/ ClearEnv

SpecEnv == InitEnv /\ [][NextEnv]_vars

\* A fetch thread over every outcome of the two transports, for both kinds
NextFetch ==
    \/ Reload \/ ToggleAi
    \/ FetchCallAny \/ FetchPublish \/ FetchClearLoading \/ FetchReport

SpecFetch == Init /\ [][NextFetch]_vars

\* The status display: fetches that publish snapshots of every status mix
NextStatus ==
    \/ FetchCallStatuses \/ FetchCallRecords
    \/ FetchPublish \/ FetchClearLoading \/ FetchReport

SpecStatus == Init /\ [][NextStatus]_vars

\* The fetch threads next to an operator who moves, searches, toggles the
\* kind and opens the confirmations
NextWorker ==
    \/ MoveDown \/ PromptSearch \/ ToggleAi
    \/ ApplyConfig \/ EnterCustomKey \/ HandleCustomKey
    \/ FetchCall \/ FetchPublish \/ FetchClearLoading \/ FetchReport

SpecWorker == Init /\ [][NextWorker]_vars

\* The message log under the main loop and a fetch thread whose _msg is
\* interleaved with it
NextLog ==
    \/ Reload \/ ToggleAi \/ EnterAddCustom \/ HandleAddCustomKey
    \/ FetchCall \/ FetchPublish \/ FetchClearLoading \/ FetchReportStep

SpecLog == Init /\ [][NextLog]_vars

\* The filter: profile lists and searches of every shape
FilterMaxProfiles == 3

TypeSearch ==
    InList /\ \E typed \in { <<112, 114, 111>>, <<80, 82>>, <<98>>,
                             <<ChSpace, 112, 114, 111, ChSpace>>,
                             <<98, ChSpace, 112>>, <<122>>, <<111>> } :
                  Commit(prompt_search(Self, typed))

InitFilter ==
    \E cfgs \in UNION { [1..n -> { [name |-> <<80, 114, 111>>, group |-> <<103>>],
                                   [name |-> <<97, 98>>],
                                   [name |-> <<66>>, group |-> <<80, 114>>],
                                   [group |-> <<111>>] }] :
                         n \in 0..FilterMaxProfiles } :
        Started(<<>>, <<>>, NoFile, [ok |-> TRUE, configs |-> cfgs])

NextFilter == TypeSearch \/ ClearSearch

SpecFilter == InitFilter /\ [][NextFilter]_vars

\* ------------------------------------------------------------------ claims
\* C1: in every state of the list, whatever sequence of moves, searches,
\* clears, reloads, kind toggles and added profiles led to it, the filtered
\* list is empty or the selection is an index into it:
\* 0 <= selected < Len(filtered_idx).
SelectionInBounds ==
    filtered_idx = <<>> \/ (0 <= selected /\ selected < Len(filtered_idx))

\* A move down was clamped at the last row of a filtered list of several rows
SelectionAtLastRow ==
    /\ Len(filtered_idx) >= 2 /\ selected = Len(filtered_idx) - 1
    /\ search # <<>> /\ ai_type = "claude"

\* C2: filtered_idx holds, in increasing order, exactly the indices of the
\* profiles whose lower-cased "name group" text contains the lower-cased
\* search as a substring; with an empty search it holds every index.
FilterIsExact ==
    LET lower(s) == [i \in 1..Len(s) |->
                        IF s[i] >= 65 /\ s[i] <= 90 THEN s[i] + 32 ELSE s[i]]
        field(cfg, k) == IF k \in DOMAIN cfg THEN cfg[k] ELSE <<>>
        blob(cfg) == lower(field(cfg, "name") \o <<32>> \o field(cfg, "group"))
        occurs(k, s) == \E i \in 0..(Len(s) - Len(k)) : SubSeq(s, i + 1, i + Len(k)) = k
        matches == { i \in 0..(Len(configs) - 1) :
                        search = <<>> \/ occurs(lower(search), blob(configs[i + 1])) }
    IN  /\ { filtered_idx[j] : j \in 1..Len(filtered_idx) } = matches
        /\ \A j \in 1..(Len(filtered_idx) - 1) : filtered_idx[j] < filtered_idx[j + 1]
        /\ search = <<>> => filtered_idx = [j \in 1..Len(configs) |-> j - 1]

\* Three profiles, the search "pro" matches the second only, in another case
FilterFoundSecondOfThree ==
    /\ Len(configs) = 3 /\ search = <<112, 114, 111>>
    /\ filtered_idx = <<1>> /\ selected = 0
    /\ configs[2].name = <<80, 114, 111>>

\* C3: at any time at most one health-fetch thread is in flight.
OneFetchInFlight == Cardinality(DOMAIN threads) <= 1

\* A load asked for a refresh while a thread was alive: the log ends with the
\* load, no fetch was announced after it, and the thread is still fetching
RefreshWhileInFlight ==
    /\ Cardinality(DOMAIN threads) = 1
    /\ messages # <<>> /\ messages[Len(messages)].tag = "loaded"
    /\ \E id \in DOMAIN threads : threads[id].pc = "fetch"

\* C4: the health snapshot is the empty map or the whole normalized result of
\* one fetch, never a mix of two results; a fetch that failed carries an empty
\* result, and while its error is shown the snapshot is empty.
SnapshotIsOneFetch ==
    LET documents == { o.body : o \in { x \in TransportOutcomes :
                                           x.kind = "response" /\ x.body # NotJson } }
        results == { normalize_health(d, k) : d \in documents, k \in Kinds }
    IN  /\ health_map = <<>> \/ health_map \in results
        /\ health_error # <<>> => health_map = <<>>
        /\ \A id \in DOMAIN threads : threads[id].err # <<>> => threads[id].health = <<>>

\* A failed fetch is about to replace a snapshot of the other kind
FailedFetchOverSnapshot ==
    /\ health_map # <<>> /\ health_map = normalize_health(DocMixed, "codex")
    /\ ai_type = "claude"
    /\ \E id \in DOMAIN threads : threads[id].pc = "publish" /\ threads[id].err # <<>>

\* C5: a refresh asked for while a fetch thread is alive starts no fetch, in
\* that step or in the step that ends the thread; a step starts a fetch
\* exactly when it is a successful load with a non-empty health URL and no
\* thread alive.
DroppedNotQueued ==
    [][ LET alive == DOMAIN threads # {}
            started == \E id \in DOMAIN threads' :
                           /\ threads'[id].pc = "fetch"
                           /\ id \in DOMAIN threads => threads[id].pc # "fetch"
            request ==
                /\ Running
                /\ \E k \in Kinds : \E loaded \in { l \in LoadOutcomes(k) : l.ok } :
                      \/ mode = MODE_LIST /\ k = ai_type
                            /\ Commit(load_configs(Self, loaded))
                      \/ mode = MODE_LIST /\ k # ai_type
                            /\ Commit(toggle_ai(Self, loaded))
                      \/ mode = MODE_ADD_CUSTOM /\ k = ai_type
                            /\ custom_input_step = LastStep
                            /\ custom_input.base_url # <<>> /\ custom_input.key # <<>>
                            /\ Commit(handle_add_custom_key(Self, KEY_ENTER, TRUE, loaded))
        IN  /\ alive => ~started
            /\ started <=> (request /\ settings.health_url # <<>> /\ ~alive) ]_vars

\* The kind was toggled while the fetch of the first kind was in flight: the
\* load is the last thing logged and the one thread is about to end
ToggleDroppedRefresh ==
    /\ ai_type = "codex"
    /\ messages # <<>> /\ messages[Len(messages)].tag = "loaded"
    /\ DOMAIN threads = {1} /\ threads[1].pc = "report" /\ threads[1].ai_type = "claude"

\* C6: the console starts in the list, and in every mode other than the list,
\* whatever the state of the mode (step, cursor, edit in progress, buffers),
\* the Esc key brings the console to the list.
EscReturnsToList ==
    /\ mode = MODE_LIST
    /\ [][ (/\ Running /\ mode # MODE_LIST
            /\ \E io_ok \in BOOLEAN, loaded \in LoadOutcomes(ai_type) :
                   ModeKey(KEY_ESC, io_ok, loaded))
           => mode' = MODE_LIST ]_vars

\* The add-profile form was left by Esc on its second step with text entered,
\* after the settings had been left in the middle of an edit
EscLeftFormAndEdit ==
    /\ mode = MODE_LIST
    /\ messages # <<>> /\ messages[Len(messages)].tag = "cancel_add"
    /\ custom_input_step = 1 /\ custom_input.base_url # <<>>
    /\ settings_editing

\* C7: declining (n, N or Esc) in either confirmation mode brings the console
\* to the list with no pending profile and no pending custom key, logs the
\* cancellation, and changes neither the process variables nor the shell file.
DeclineChangesNothing ==
    [][ (/\ Running /\ mode \in {MODE_CONFIRM, MODE_CONFIRM_CUSTOM_KEY}
         /\ \E ch \in {ChLowerN, ChUpperN, KEY_ESC} : ModeKey(ch, TRUE, NotLoaded))
        => /\ mode' = MODE_LIST
           /\ confirm_cfg' = None /\ confirm_custom_key' = <<>>
           /\ messages' # <<>>
           /\ messages'[Len(messages')].tag =
                  (IF mode = MODE_CONFIRM THEN "cancel_apply" ELSE "cancel_custom_apply")
           /\ environ' = environ /\ shell_file' = shell_file ]_vars

\* A custom key was declined after a profile had been applied
DeclinedCustomKey ==
    /\ mode = MODE_LIST
    /\ messages # <<>> /\ messages[Len(messages)].tag = "cancel_custom_apply"
    /\ confirm_cfg = None /\ confirm_custom_key = <<>>
    /\ shell_file.exists /\ DOMAIN environ # {}

\* C8: affirming (y, Y or Enter) in a confirmation mode writes the two
\* variables of the active kind, the pending profile's secret (in the custom
\* key mode the pending custom key) and the pending profile's endpoint, to the
\* shell file, then sets the same two process variables, then logs the
\* applied message and returns to the list with nothing pending; when the
\* write raises, no process variable is set and nothing is logged.
AffirmWritesThenReports ==
    [][ \A io_ok \in BOOLEAN :
          (/\ Running /\ mode \in {MODE_CONFIRM, MODE_CONFIRM_CUSTOM_KEY}
           /\ confirm_cfg # None
           /\ \E ch \in {ChLowerY, ChUpperY, KEY_ENTER} : ModeKey(ch, io_ok, NotLoaded))
          => LET m == CONFIG_MAP[ai_type]
                 field(k) == IF k \in DOMAIN confirm_cfg THEN confirm_cfg[k] ELSE <<>>
                 secret == IF mode = MODE_CONFIRM_CUSTOM_KEY THEN confirm_custom_key
                           ELSE field(m.json_token)
                 endpoint == field(m.json_url)
                 applied == Message(IF mode = MODE_CONFIRM THEN "applied"
                                    ELSE "applied_custom_key", "", 0, field("name"))
             IN  IF io_ok
                 THEN /\ shell_file' = write_permanent(shell_file,
                                           << <<m.env_token, secret>>, <<m.env_url, endpoint>> >>)
                      /\ environ' = [k \in DOMAIN environ \cup {m.env_token, m.env_url} |->
                                        IF k = m.env_token THEN secret
                                        ELSE IF k = m.env_url THEN endpoint ELSE environ[k]]
                      /\ messages' = LastN(messages \o <<applied, Note("source_hint")>>,
                                           MsgWindow)
                      /\ mode' = MODE_LIST
                      /\ confirm_cfg' = None /\ confirm_custom_key' = <<>>
                 ELSE /\ running' = "crashed"
                      /\ shell_file' = shell_file /\ environ' = environ
                      /\ messages' = messages ]_vars

\* The custom key "a" was applied with the endpoint of the third profile
AppliedCustomKey ==
    /\ mode = MODE_LIST /\ ai_type = "claude"
    /\ messages # <<>> /\ messages[Len(messages)].tag = "source_hint"
    /\ DOMAIN environ = {TxtAnthropicAuthToken, TxtAnthropicBaseUrl}
    /\ environ[TxtAnthropicAuthToken] = <<97>> /\ environ[TxtAnthropicBaseUrl] = <<118>>
    /\ confirm_cfg = None /\ confirm_custom_key = <<>>

\* C9: when a profile has been applied, applying the same profile again leaves
\* the shell file and the process variables as the first application left
\* them, whatever the shell file held before.
TwiceIsOnce ==
    [][ (/\ Running /\ mode = MODE_CONFIRM /\ confirm_cfg # None
         /\ \E ch \in {ChLowerY, ChUpperY, KEY_ENTER} : ModeKey(ch, TRUE, NotLoaded))
        => LET once == Self'
               again == do_apply_config([once EXCEPT !.confirm_cfg = confirm_cfg,
                                                     !.mode = MODE_CONFIRM], TRUE)
           IN  /\ again.shell_file = once.shell_file
               /\ again.environ = once.environ ]_vars

\* The second profile was applied over a file that assigned both variables:
\* the old assignments are gone, the other line is kept, a blank line and the
\* two exports follow
AppliedOverOldExports ==
    /\ mode = MODE_LIST
    /\ ReadLines(shell_file) = << <<98>>, <<>>,
                                  ExportLine(TxtAnthropicAuthToken, <<50>>),
                                  ExportLine(TxtAnthropicBaseUrl, <<117>>) >>
    /\ DOMAIN environ # {} /\ environ[TxtAnthropicAuthToken] = <<50>>

\* C10: in the add-profile form, Enter on the last step while the base URL or
\* the key is empty keeps the form on that step, and changes neither the
\* custom profiles of the settings nor the settings file.
MissingFieldStays ==
    [][ (/\ Running /\ mode = MODE_ADD_CUSTOM /\ custom_input_step = LastStep
         /\ (custom_input.base_url = <<>> \/ custom_input.key = <<>>)
         /\ \E io_ok \in BOOLEAN, loaded \in LoadOutcomes(ai_type) :
                ModeKey(KEY_ENTER, io_ok, loaded))
        => /\ mode' = MODE_ADD_CUSTOM /\ custom_input_step' = custom_input_step
           /\ custom_input' = custom_input
           /\ settings' = settings /\ settings_file' = settings_file
           /\ configs' = configs /\ running' = running ]_vars

\* The last step was submitted with a base URL and no key
SubmittedWithoutKey ==
    /\ mode = MODE_ADD_CUSTOM /\ custom_input_step = LastStep
    /\ custom_input.base_url # <<>> /\ custom_input.key = <<>>
    /\ messages # <<>> /\ messages[Len(messages)].tag = "add_missing_field"

BlankKeyIsIgnored ==
    [][ (/\ Running /\ mode = MODE_CUSTOM_KEY
         /\ \A i \in 1..Len(custom_key_input) : custom_key_input[i] = 32
         /\ ModeKey(KEY_ENTER, TRUE, NotLoaded))
        => /\ mode' = MODE_CUSTOM_KEY /\ custom_key_input' = custom_key_input
           /\ confirm_cfg' = confirm_cfg /\ confirm_custom_key' = confirm_custom_key
           /\ messages' = messages
           /\ environ' = environ /\ shell_file' = shell_file ]_vars

\* A blank was typed as the custom key, after a profile had been applied
BlankKeyTyped ==
    /\ Running /\ mode = MODE_CUSTOM_KEY
    /\ custom_key_input = <<32>>
    /\ confirm_cfg = None /\ DOMAIN environ # {}

\* C13: every kind toggle made in the list with a non-empty health URL starts
\* a new fetch thread for the new kind, whether or not a thread is alive and
\* whether or not the profiles of the new kind could be loaded.
ToggleStartsFetch ==
    [][ (/\ InList /\ settings.health_url # <<>>
         /\ \E loaded \in LoadOutcomes(OtherKind) : Commit(toggle_ai(Self, loaded)))
        => \E id \in DOMAIN threads' :
               /\ threads'[id].pc = "fetch" /\ threads'[id].ai_type = ai_type'
               /\ id \in DOMAIN threads => threads[id].pc # "fetch" ]_vars

FallbackAfterPrimary ==
    [][ \A id \in DOMAIN threads, primary \in AllTransportOutcomes,
           fallback \in AllTransportOutcomes :
          (ThreadAt(id, "fetch") /\ Commit(fetch_call(Self, id, primary, fallback)))
          => LET k == threads[id].ai_type
                 ok(o) == /\ o.kind = "response" /\ o.status_code = 200
                          /\ o.body # NotJson /\ ~normalize_raises(o.body, k)
                 r == fetch_health_status(primary, fallback, k)
                 got == threads'[id]
             IN  /\ ok(primary) => /\ ~r.fallback_tried
                                   /\ got.health = normalize_health(primary.body, k)
                                   /\ got.err = <<>>
                 /\ ~ok(primary) => /\ r.fallback_tried
                                    /\ ok(fallback) =>
                                           /\ got.health = normalize_health(fallback.body, k)
                                           /\ got.err = <<>>
                                    /\ ~ok(fallback) => got.health = <<>> /\ got.err # <<>>
                 /\ got.pc = "publish" /\ running' = "running" ]_vars

\* The first client did not succeed and the second met a document that
\* cannot be normalized for claude: the error is reported, the thread goes on
FallbackCouldNotNormalize ==
    \E id \in DOMAIN threads :
        /\ threads[id].pc = "report" /\ threads[id].ai_type = "claude"
        /\ threads[id].err = TxtNoAttribute /\ health_map = <<>>

\* C16: no failure of a collaborator ends the event loop: when the write of
\* the shell file fails while a profile or a custom key is applied or the
\* variables are removed from the file, the console keeps running.
FailureKeepsLoopRunning == running # "crashed"

\* C17: when the profiles cannot be loaded, at the start, on a reload or on a
\* kind toggle, the console keeps running in the list with no profiles and an
\* empty filtered list, and the error is logged (followed by the no-match
\* message of the filter when a search is active).
LoadFailureEmptiesList ==
    /\ (messages # <<>> /\ messages[Len(messages)].tag = "load_error")
           => /\ running = "running" /\ mode = MODE_LIST
              /\ configs = <<>> /\ filtered_idx = <<>>
    /\ [][ (/\ InList
            /\ \/ Commit(load_configs(Self, NotLoaded))
               \/ Commit(toggle_ai(Self, NotLoaded)))
           => /\ running' = "running" /\ mode' = MODE_LIST
              /\ configs' = <<>> /\ filtered_idx' = <<>> /\ selected' = 0
              /\ messages' = LastN(messages \o <<Note("load_error")>>
                                       \o (IF search' # <<>>
                                           THEN <<Note("search_no_match")>> ELSE <<>>),
                                   MsgWindow) ]_vars

\* The kind was toggled to codex and its profiles could not be loaded, while
\* a fetch was in flight
CodexLoadFailed ==
    /\ Running /\ mode = MODE_LIST /\ ai_type = "codex"
    /\ configs = <<>> /\ filtered_idx = <<>>
    /\ messages # <<>> /\ messages[Len(messages)].tag = "load_error"
    /\ health_loading

\* C18, as the code has it: Enter on the last add-profile step with an empty
\* required field logs a message, and Enter on an empty or blank custom key
\* logs nothing; in both cases the mode stays and neither the settings, the
\* settings file, the shell file nor the process variables change.
ValidationStaysInPlace ==
    LET w == run_mode_key(Self, KEY_ENTER, TRUE, NotLoaded)
        nothing_persisted == /\ w.settings = settings /\ w.settings_file = settings_file
                             /\ w.shell_file = shell_file /\ w.environ = environ
    IN  /\ (/\ Running /\ mode = MODE_ADD_CUSTOM /\ custom_input_step = LastStep
            /\ (custom_input.base_url = <<>> \/ custom_input.key = <<>>))
           => /\ w.messages = LastN(Append(messages, Note("add_missing_field")), MsgWindow)
              /\ w.mode = mode /\ w.custom_input_step = custom_input_step
              /\ nothing_persisted
        /\ (/\ Running /\ mode = MODE_CUSTOM_KEY
            /\ \A i \in 1..Len(custom_key_input) : custom_key_input[i] = 32)
           => /\ w.messages = messages
              /\ w.mode = mode /\ nothing_persisted

\* The add-profile form refused a submit with no base URL, after a blank had
\* been typed as a custom key
SubmittedWithoutUrl ==
    /\ mode = MODE_ADD_CUSTOM /\ custom_input_step = LastStep
    /\ custom_input.base_url = <<>>
    /\ messages # <<>> /\ messages[Len(messages)].tag = "add_missing_field"
    /\ custom_key_input = <<32>>

\* C18, as stated: Enter on the last add-profile step with an empty required
\* field, and Enter on an empty custom key, each put a message in the log,
\* while the mode stays and nothing is persisted.
ValidationAlwaysLogs ==
    LET w == run_mode_key(Self, KEY_ENTER, TRUE, NotLoaded)
        nothing_persisted == /\ w.settings = settings /\ w.settings_file = settings_file
                             /\ w.shell_file = shell_file /\ w.environ = environ
    IN  /\ (/\ Running /\ mode = MODE_ADD_CUSTOM /\ custom_input_step = LastStep
            /\ (custom_input.base_url = <<>> \/ custom_input.key = <<>>))
           => /\ w.messages = LastN(Append(messages, Note("add_missing_field")), MsgWindow)
              /\ w.mode = mode /\ nothing_persisted
        /\ (/\ Running /\ mode = MODE_CUSTOM_KEY /\ custom_key_input = <<>>)
           => /\ w.messages # messages
              /\ w.mode = mode /\ nothing_persisted

\* C19: whenever the entries of a profile's group contain at least one entry
\* whose status is error, whatever its position and whatever the other
\* statuses, the list shows the error display (filled circle, red) for it.
ErrorEntryShowsError ==
    \A idx \in 0..(Len(configs) - 1) :
        LET entries == _group_entries(Self, configs[idx + 1])
        IN  (\E i \in 1..Len(entries) : entries[i].status = StatusNames.error)
                => get_status_for(Self, idx) = [icon |-> "filled", color |-> 6]

\* A snapshot was published in which the error entry of a group comes last,
\* after an ok entry and a degraded one
ErrorBehindOkAndDegraded ==
    /\ <<103>> \in DOMAIN health_map
    /\ Len(health_map[<<103>>]) = 3
    /\ health_map[<<103>>][1].status = StatusNames.ok
    /\ health_map[<<103>>][2].status = StatusNames.degraded
    /\ health_map[<<103>>][3].status = StatusNames.error
    /\ configs # <<>> /\ Get(configs[1], "group", <<>>) = <<103>>

\* C20: for every non-empty list of entries with statuses of the four tiers,
\* the list shows the display of the most severe tier present, under the order
\* error/failed < slow/degraded < ok/operational < unknown; the display of a
\* tier is the one of its first name, so a group whose worst entry is degraded
\* is shown like one whose worst entry is slow.
WorstTierIsShown ==
    LET tier(st) ==
            CASE st \in {StatusNames.error, StatusNames.failed} -> 0
              [] st \in {StatusNames.slow, StatusNames.degraded} -> 1
              [] st \in {StatusNames.ok, StatusNames.operational} -> 2
              [] st = StatusNames.unknown -> 3
        tier_display(n) ==
            CASE n = 0 -> _status_icon(StatusNames.error)
              [] n = 1 -> _status_icon(StatusNames.slow)
              [] n = 2 -> _status_icon(StatusNames.ok)
              [] n = 3 -> _status_icon(StatusNames.unknown)
        tiered == {StatusNames.error, StatusNames.failed, StatusNames.slow,
                   StatusNames.degraded, StatusNames.ok, StatusNames.operational,
                   StatusNames.unknown}
    IN  \A idx \in 0..(Len(configs) - 1) :
            LET entries == _group_entries(Self, configs[idx + 1])
                worst == CHOOSE n \in 0..3 :
                             /\ \E i \in 1..Len(entries) : tier(entries[i].status) = n
                             /\ \A i \in 1..Len(entries) : tier(entries[i].status) >= n
            IN  (entries # <<>> /\ \A i \in 1..Len(entries) : entries[i].status \in tiered)
                    => get_status_for(Self, idx) = tier_display(worst)

\* C21, as the code has it: in the snapshot a fetch obtains from a document,
\* the status of every entry and every result of its timeline is ok for the
\* code 1, slow for 2, error for 3, unknown for every other integer, for null,
\* for a missing field and for the empty text, and a non-empty text unchanged;
\* the recent status of a probing node is ok, slow or error for a last result
\* 1, 2 or 3 and unknown for every other last result or none.
StatusCodesAreMapped ==
    [][ \A doc \in RecordDocs :
          (FetchAnswer(1, doc) /\ ~normalize_raises(doc, ai_type))
          => LET Name(v) == CASE v = JInt(1) -> TxtOk
                              [] v = JInt(2) -> TxtSlow
                              [] v = JInt(3) -> TxtError
                              [] OTHER -> IF v.t = "str" /\ v.s # <<>> THEN v.s
                                          ELSE TxtUnknown
                 Recent(v) == CASE v = JInt(1) -> TxtOk
                                [] v = JInt(2) -> TxtSlow
                                [] v = JInt(3) -> TxtError
                                [] OTHER -> TxtUnknown
                 Results(svc) ==
                     IF "timeline" \notin DOMAIN svc \/ svc.timeline.t # "list" THEN <<>>
                     ELSE LET nodes == Get(svc.timeline.items[1], "nodes", JNull)
                              infos == IF nodes.t = "map"
                                       THEN SelectSeq(nodes.items, LAMBDA n : n.t = "map")
                                       ELSE <<>>
                          IN  IF infos = <<>> THEN <<>> ELSE Get(infos[1], "results", <<>>)
                 matching == SelectSeq(doc.services,
                                       LAMBDA svc : Get(svc, "model_type_label", <<>>)
                                                        = TxtClaudeCode)
                 health == threads'[1].health
                 Of(g) == SelectSeq(matching,
                              LAMBDA svc : Get(svc, "provider_name", TxtUnknown) = g)
             IN  /\ \A g \in DOMAIN health \ {TxtNodes} :
                        /\ Len(health[g]) = Len(Of(g))
                        /\ \A i \in 1..Len(health[g]) :
                               /\ health[g][i].status
                                      = Name(Get(Of(g)[i], "status", JNull))
                               /\ health[g][i].timeline
                                      = [k \in 1..Len(Results(Of(g)[i])) |->
                                            Name(Results(Of(g)[i])[k])]
                 /\ \A i \in 1..Len(matching) : Get(matching[i], "provider_name", TxtUnknown)
                                                    \in DOMAIN health
                 /\ TxtNodes \in DOMAIN health
                        => \A n \in 1..Len(health[TxtNodes]) :
                             \A s \in 1..Len(health[TxtNodes][n].services) :
                               LET service == health[TxtNodes][n].services[s]
                               IN  service.status
                                       = IF service.results = <<>> THEN TxtUnknown
                                         ELSE Recent(service.results[Len(service.results)])
      ]_vars

\* A snapshot was published whose entries came from the code 9 and from a
\* text, the second with a timeline of the results 2, null and a text
UnknownCodeAndTextPublished ==
    /\ <<103>> \in DOMAIN health_map
    /\ Len(health_map[<<103>>]) = 2
    /\ health_map[<<103>>][1].status = TxtUnknown
    /\ health_map[<<103>>][1].timeline = <<>>
    /\ health_map[<<103>>][2].status = TxtOk
    /\ health_map[<<103>>][2].timeline = <<TxtSlow, TxtUnknown, <<100, 111, 119, 110>>>>
    /\ TxtNodes \in DOMAIN health_map
    /\ health_map[TxtNodes][1].services[1].status = TxtUnknown

\* C21, as stated: the status of every entry and every result of its timeline
\* is ok for the code 1, slow for 2, error for 3 and unknown for every other
\* value of the field: other integers, null, a missing field and texts.
EveryOtherValueIsUnknown ==
    [][ \A doc \in RecordDocs :
          (FetchAnswer(1, doc) /\ ~normalize_raises(doc, ai_type))
          => LET Name(v) == CASE v = JInt(1) -> TxtOk
                              [] v = JInt(2) -> TxtSlow
                              [] v = JInt(3) -> TxtError
                              [] OTHER -> TxtUnknown
                 health == threads'[1].health
             IN  \A g \in DOMAIN health \ {TxtNodes} :
                   \A i \in 1..Len(health[g]) :
                     /\ health[g][i].status \in {TxtOk, TxtSlow, TxtError, TxtUnknown}
                     /\ \A k \in 1..Len(health[g][i].timeline) :
                            health[g][i].timeline[k]
                                \in {TxtOk, TxtSlow, TxtError, TxtUnknown}
                     /\ \E j \in 1..Len(doc.services) :
                            health[g][i].status
                                = Name(Get(doc.services[j], "status", JNull))
      ]_vars

\* C22: for a document in which one service record has keys missing (no key
\* at all, the type label alone, no status, or a timeline node without id,
\* results and counters) among records that have them all, the fetch obtains
\* a snapshot and no error, and in it the entries and the node records are
\* those of the document without the incomplete record, in their order, the
\* own entry of the incomplete record apart.
IncompleteRecordHarmsNone ==
    [][ \A doc \in RecordDocs :
          \A bad \in 1..Len(doc.services) :
            LET base == [model_type_label |-> TxtClaudeCode, model_name |-> <<109>>,
                         provider_name |-> <<103>>]
                incomplete ==
                    { <<>>, [model_type_label |-> TxtClaudeCode], base,
                      [x \in DOMAIN base \cup {"status", "timeline"} |->
                          CASE x = "status" -> JInt(1)
                            [] x = "timeline" ->
                                 [t |-> "list", items |->
                                     << [t |-> "map", nodes |->
                                            [t |-> "map", items |-> <<[t |-> "map"]>>]] >>]
                            [] OTHER -> base[x]] }
                Complete(svc) ==
                    /\ {"model_type_label", "model_name", "provider_name", "status"}
                           \subseteq DOMAIN svc
                    /\ svc.status.t \in {"int", "str"}
                    /\ "current_status" \notin DOMAIN svc
                    /\ "timeline" \in DOMAIN svc
                           => /\ svc.timeline.t = "list"
                              /\ svc.timeline.items[1].t = "map"
                              /\ svc.timeline.items[1].nodes.t = "map"
                              /\ \A n \in 1..Len(svc.timeline.items[1].nodes.items) :
                                     LET info == svc.timeline.items[1].nodes.items[n]
                                     IN  /\ info.t = "map"
                                         /\ {"node_id", "results", "count_total",
                                             "count_success"} \subseteq DOMAIN info
                                         /\ info.count_total.t = "int"
                others == SelectSeq([k \in 1..Len(doc.services) |-> k], LAMBDA k : k # bad)
                rest == [services |-> [j \in 1..Len(others) |-> doc.services[others[j]]]]
                Group(svc) == Get(svc, "provider_name", TxtUnknown)
                Matches(svc) == Get(svc, "model_type_label", <<>>) = ai_type
                                    \/ (ai_type = "claude"
                                        /\ Get(svc, "model_type_label", <<>>) = TxtClaudeCode)
            IN  (/\ FetchAnswer(1, doc)
                 /\ doc.services[bad] \in incomplete
                 /\ Len(doc.services) > 1
                 /\ \A j \in 1..Len(others) : Complete(doc.services[others[j]]))
                => LET health == threads'[1].health
                       without == normalize_health(rest, ai_type)
                       Kept(g) ==
                           LET of == SelectSeq([k \in 1..Len(doc.services) |-> k],
                                       LAMBDA k : /\ Matches(doc.services[k])
                                                  /\ Group(doc.services[k]) = g)
                               at == SelectSeq([k \in 1..Len(of) |-> k],
                                               LAMBDA k : of[k] # bad)
                           IN  [j \in 1..Len(at) |-> health[g][at[j]]]
                   IN  /\ threads'[1].err = <<>>
                       /\ DOMAIN without \subseteq DOMAIN health
                       /\ \A g \in DOMAIN without \ {TxtNodes} : Kept(g) = without[g]
                       /\ TxtNodes \in DOMAIN without
                              => health[TxtNodes] = without[TxtNodes]
                       /\ \A j \in 1..Len(others) :
                              Matches(doc.services[others[j]])
                                  => Group(doc.services[others[j]]) \in DOMAIN without
      ]_vars

\* A snapshot was published from a document whose first record carries the
\* type label alone: its entry sits in the group unknown, and the error entry
\* of the record after it in the group of its provider
LabelOnlyRecordPublished ==
    /\ DOMAIN health_map = {TxtUnknown, <<103>>}
    /\ Len(health_map[TxtUnknown]) = 1
    /\ health_map[TxtUnknown][1].status = TxtUnknown
    /\ health_map[TxtUnknown][1].name = <<>>
    /\ Len(health_map[<<103>>]) = 1
    /\ health_map[<<103>>][1].status = TxtError
    /\ health_error = <<>>
    /\ threads = <<>>

\* C23: whatever null or wrongly typed value a record of the document holds
\* (a current status that is no map, a null counter, a timeline block or a
\* node container that is no map), the fetch obtains a snapshot and no error,
\* and every record of the kind that names its provider has its group in the
\* snapshot.
WrongTypeIsTolerated ==
    [][ \A doc \in RecordDocs :
          FetchAnswer(1, doc)
          => /\ threads'[1].err = <<>>
             /\ \A j \in 1..Len(doc.services) :
                    (/\ Get(doc.services[j], "model_type_label", <<>>) = TxtClaudeCode
                     /\ "provider_name" \in DOMAIN doc.services[j])
                    => doc.services[j].provider_name \in DOMAIN threads'[1].health
      ]_vars

\* C24: a document of the map shape, named services each with a status and
\* the time of its last check, is normalized into a snapshot with an entry
\* for each of its services, as a document of the list shape is.
LegacyShapeIsNormalized ==
    [][ \A id \in 1..MaxThreads :
          LET answer == [kind |-> "response", status_code |-> HTTP_OK, body |-> DocLegacy]
              health == threads'[id].health
              entries == UNION { { <<g, i>> : i \in 1..Len(health[g]) } : g \in DOMAIN health }
          IN  (ThreadAt(id, "fetch") /\ ai_type = "claude"
                 /\ Commit(fetch_call(Self, id, answer, answer)))
              => /\ threads'[id].err = <<>>
                 /\ Cardinality(entries) = Cardinality(DOMAIN DocLegacy)
                 /\ { health[e[1]][e[2]].status : e \in entries } = {TxtOk, TxtError}
      ]_vars

\* C25: what current_env reports for the active kind.  With both variables
\* of the kind empty it is the word for unconfigured and no index; otherwise,
\* when profiles of the list have both the token and the URL of the
\* variables, the first of them in list order; and when none has, no index
\* and a text that begins with the word for custom, shows of the token its
\* first eight and last four characters at most, and never a token of more
\* than eight characters whole; with a URL it shows the host after http://
\* or https:// and the masked token.
ActiveProfileIsDetected ==
    LET cfg_map == CONFIG_MAP[ai_type]
        token == Get(environ, cfg_map.env_token, <<>>)
        url == Get(environ, cfg_map.env_url, <<>>)
        Same(i) == /\ Get(configs[i], cfg_map.json_token, <<>>) = token
                   /\ Get(configs[i], cfg_map.json_url, <<>>) = url
        found == current_env(Self)
    IN  /\ (token = <<>> /\ url = <<>>)
               => found = [text |-> <<26410, 37197, 32622>>, idx |-> None]
        /\ (token # <<>> \/ url # <<>>)
               => /\ found.text # <<26410, 37197, 32622>>
                  /\ \A i \in 1..Len(configs) :
                         (Same(i) /\ \A j \in 1..(i - 1) : ~Same(j))
                             => /\ found.idx = i - 1
                                /\ found.text = Get(configs[i], "name", <<>>)
                  /\ (\A i \in 1..Len(configs) : ~Same(i))
                         => /\ found.idx = None
                            /\ StartsWith(found.text, <<33258, 23450, 20041, 40>>)
                            /\ Len(token) > 8 => ~Contains(token, found.text)
                            /\ \A k \in 9..(Len(token) - 4) :
                                   ~Contains(<<token[k]>>, found.text)
                            /\ (Len(token) = 17 /\ Len(url) = 12)
                                   => found.text
                                        = <<33258, 23450, 20041, 40, 97, 46, 98, 41, 32>>
                                            \o Take(token, 8) \o <<42, 42, 42>>
                                            \o SubSeq(token, 14, 17)
                            /\ (token = <<>> /\ Len(url) = 18)
                                   => found.text = <<33258, 23450, 20041, 40, 100, 41, 32,
                                                     26080, 75, 101, 121>>

\* The variables hold the token and the URL that the first stored profile and
\* the custom profile after the stored ones share, set by applying the custom
\* one
AppliedTheRepeatedProfile ==
    /\ Len(configs) = 4
    /\ Get(environ, TxtAnthropicAuthToken, <<>>) = <<49>>
    /\ Get(environ, TxtAnthropicBaseUrl, <<>>) = <<117>>
    /\ selected = 3
    /\ messages # <<>> /\ messages[Len(messages)].tag = "source_hint"

\* C26: no step of a fetch thread changes what the console owns: mode, kind,
\* search text, profiles, filtered indices, selection, scroll offset, the
\* pending confirmation and the pending custom key stay as they are, also
\* when the thread ends after a kind toggle or outside the list mode.
WorkerLeavesConsoleState ==
    [][ (FetchCall \/ FetchPublish \/ FetchClearLoading \/ FetchReport)
        => UNCHANGED <<mode, ai_type, search, configs, filtered_idx, selected,
                       scroll_offset, confirm_cfg, confirm_custom_key>> ]_vars

\* A fetch started for claude has come to its end under codex, in the
\* confirmation of a custom key, and its snapshot is published
WorkerEndedInConfirmation ==
    /\ mode = MODE_CONFIRM_CUSTOM_KEY /\ ai_type = "codex"
    /\ confirm_cfg # None /\ confirm_custom_key # <<>>
    /\ threads = <<>> /\ ~health_loading
    /\ DOMAIN health_map = {<<103>>}
    /\ health_map[<<103>>][1].status = TxtError

\* C27: every step that computes the filtered indices anew, a kind toggle, an
\* entered search, a cleared search, a reload and the reload that follows the
\* adding of a profile, and every step that changes them, leaves the
\* selection and the scroll offset at 0, wherever they were.
RecomputeResetsSelection ==
    [][ (\/ PromptSearch \/ ClearSearch \/ Reload \/ ToggleAi
         \/ (HandleAddCustomKey /\ settings' # settings /\ running' = "running")
         \/ filtered_idx' # filtered_idx)
        => (selected' = 0 /\ scroll_offset' = 0) ]_vars

\* A search was entered over the four profiles of a list and narrowed it to
\* one: the selection is at the top
SearchNarrowedLongList ==
    /\ Len(configs) = 4 /\ search # <<>> /\ Len(filtered_idx) = 1
    /\ selected = 0 /\ scroll_offset = 0
    /\ mode = MODE_LIST

\* C28: whenever no fetch thread is alive, the published snapshot is empty or
\* is what a document of the endpoint normalizes to for the active kind: the
\* console is never idle with the snapshot of the other kind.
IdleSnapshotIsOfActiveKind ==
    (Running /\ threads = <<>>)
        => \/ health_map = <<>>
           \/ \E o \in TransportOutcomes :
                  /\ o.kind = "response"
                  /\ health_map = normalize_health(o.body, ai_type)

\* C29: from every state of the add-profile form some sequence of at most
\* AddDepth keys without Esc ends in a successful add (the profile is
\* appended, the settings are saved and the console is back in the list).
AddFlowNeverStuck ==
    LET RECURSIVE CanAdd(_, _)
        CanAdd(w, n) ==
            /\ n > 0
            /\ \E ch \in AddCustomKeys \ {KEY_ESC}, loaded \in LoadOutcomes(w.ai_type) :
                  LET w1 == handle_add_custom_key(w, ch, TRUE, loaded)
                  IN  \/ /\ w1.mode = MODE_LIST
                         /\ Len(w1.settings.custom_configs[w.ai_type])
                                = Len(w.settings.custom_configs[w.ai_type]) + 1
                      \/ /\ w1.mode = MODE_ADD_CUSTOM
                         /\ CanAdd(w1, n - 1)
    IN  (Running /\ mode = MODE_ADD_CUSTOM) => CanAdd(Self, AddDepth)

\* C30: move(delta) changes nothing when the filtered list is empty; else it
\* sets selected to selected + delta clamped into 0 .. len(filtered_idx) - 1
\* and leaves scroll_offset <= selected < scroll_offset + visible_rows, with
\* scroll_offset unchanged when the new selection was inside the window and
\* otherwise changed by the least amount that brings it into view.
MoveClampsAndScrollsMinimally ==
    \A delta \in {-1, 1} :
        LET w1 == move(Self, delta)
            n == Len(filtered_idx)
            rows == Max2(MinVisibleRows, MaxY - HeaderRows)
            Dist(a, b) == IF a >= b THEN a - b ELSE b - a
            target == IF selected + delta < 0 THEN 0
                      ELSE IF selected + delta > n - 1 THEN n - 1
                      ELSE selected + delta
        IN  IF filtered_idx = <<>> THEN w1 = Self
            ELSE /\ w1.selected = target
                 /\ w1.scroll_offset <= target /\ target < w1.scroll_offset + rows
                 /\ (scroll_offset <= target /\ target < scroll_offset + rows)
                        => w1.scroll_offset = scroll_offset
                 /\ \A s \in 0..n :
                        (s <= target /\ target < s + rows)
                            => Dist(w1.scroll_offset, scroll_offset) <= Dist(s, scroll_offset)
                 /\ w1 = [Self EXCEPT !.selected = w1.selected,
                                      !.scroll_offset = w1.scroll_offset]

\* The selection was moved past the third row of four profiles and the window
\* followed by one row.
MovedBelowTheWindow ==
    /\ mode = MODE_LIST /\ Len(filtered_idx) = 4
    /\ selected = 3 /\ scroll_offset = 1

\* C31: under every interleaving of the pushes of the main loop and of the
\* fetch thread the log holds the most recent messages in the order of their
\* pushes: the step of the thread that cuts the log leaves the last
\* MsgWindow messages the log holds at that step, none of them lost for an
\* older one.
TrimKeepsTheNewest ==
    [][ (\E id \in DOMAIN threads : threads[id].pc = "report_store") /\ FetchReportStep
            => messages' = LastN(messages, MsgWindow) ]_vars

\* C32: no step of the console changes a profile that the settings hold:
\* every profile of settings.custom_configs is after the step what it was
\* before it.
StoredProfilesAreNotMutated ==
    [][ \A k \in DOMAIN settings.custom_configs :
            \A i \in 1..Len(settings.custom_configs[k]) :
                /\ k \in DOMAIN settings'.custom_configs
                /\ i <= Len(settings'.custom_configs[k])
                /\ settings'.custom_configs[k][i] = settings.custom_configs[k][i] ]_vars

\* C33 as stated: a record is in the snapshot of a kind exactly when it has
\* a non-empty type label equal to the label of the kind, or has no type
\* label and its lower-cased model name or channel name contains a keyword
\* of the kind.
LabelOrKeywordDecides ==
    [][ \A rec \in LabelRecords :
            FetchAnswer(1, [services |-> <<rec>>])
            => LET label == Get(rec, "model_type_label", <<>>)
                   k == threads[1].ai_type
                   keywords == IF k = "claude" THEN ClaudeKeywords ELSE CodexKeywords
               IN  (threads'[1].health # <<>>)
                       <=> IF label # <<>>
                           THEN label = (IF k = "claude" THEN TxtClaudeCode ELSE TxtCodex)
                           ELSE \E kw \in keywords :
                                    \/ Contains(kw, Lower(Get(rec, "model_name", <<>>)))
                                    \/ Contains(kw, Lower(Get(rec, "channel_name", <<>>)))
       ]_vars

\* C33, amended: the type of a record is its type label or, when that is
\* absent or empty, its type code, lower-cased.  A record with a type is in
\* the snapshot of a kind exactly when the type is the label of the kind, and
\* keywords are not consulted; a record without a type exactly when the text
\* "<model name> <channel name>", lower-cased, contains a keyword of the
\* kind.  Absent names count as empty and nothing raises.
TypeOrKeywordDecides ==
    [][ \A rec \in LabelRecords :
            FetchAnswer(1, [services |-> <<rec>>])
            => LET label == Get(rec, "model_type_label", <<>>)
                   type == Lower(IF label # <<>> THEN label
                                 ELSE Get(rec, "model_type_code", <<>>))
                   joined == Lower(Get(rec, "model_name", <<>>) \o <<ChSpace>>
                                       \o Get(rec, "channel_name", <<>>))
                   Expected(k) ==
                       IF type # <<>>
                       THEN type = (IF k = "claude" THEN TxtClaudeCode ELSE TxtCodex)
                       ELSE \E kw \in (IF k = "claude" THEN ClaudeKeywords
                                       ELSE CodexKeywords) : Contains(kw, joined)
               IN  /\ threads'[1].err = <<>>
                   /\ (threads'[1].health # <<>>) <=> Expected(threads[1].ai_type)
                   /\ \A k \in Kinds : is_matching_channel(rec, k) <=> Expected(k) ]_vars

\* A record labelled for claude whose model name holds a keyword of codex in
\* capitals was fetched for claude and is in the result.
LabelledRecordWithForeignName ==
    \E id \in DOMAIN threads :
        /\ threads[id].pc = "publish" /\ threads[id].ai_type = "claude"
        /\ \E g \in DOMAIN threads[id].health :
               \E i \in 1..Len(threads[id].health[g]) :
                   /\ "model" \in DOMAIN threads[id].health[g][i]
                   /\ threads[id].health[g][i].model = <<71, 80, 84>>

\* C34: for a published group of a single entry whose status is one of ok,
\* operational, slow, degraded, error, failed, timeout and unknown, the
\* display _choose_status gives the group is the display _status_icon gives
\* the status of the entry.
SingleEntryShowsItsOwnIcon ==
    \A g \in DOMAIN health_map :
        (/\ Len(health_map[g]) = 1
         /\ "status" \in DOMAIN health_map[g][1]
         /\ health_map[g][1].status
                \in { StatusNames[n] : n \in {"ok", "operational", "slow", "degraded",
                                              "error", "failed", "timeout", "unknown"} })
            => _choose_status(health_map[g]) = _status_icon(health_map[g][1].status)

\* C35: every fetch thread that is started ends, as long as the console
\* runs; the step that ends it leaves its result as the snapshot, the
\* loading flag false and its one status message as the last of the log; and
\* the loading flag is true only while a thread is alive.
EveryFetchCompletes ==
    /\ \A id \in 1..MaxThreads :
           (id \in DOMAIN threads) ~> (id \notin DOMAIN threads \/ ~Running)
    /\ [][ \A id \in DOMAIN threads :
               id \notin DOMAIN threads'
               => /\ health_map' = threads[id].health
                  /\ health_loading' = FALSE
                  /\ messages' # <<>>
                  /\ messages'[Len(messages')].tag
                         = (IF threads[id].err # <<>> THEN "fetch_failed"
                            ELSE IF threads[id].health = <<>> THEN "fetch_empty"
                            ELSE "fetched") ]_vars
    /\ [](health_loading => threads # <<>>)

\* A second fetch, started by a reload, has ended with a snapshot of groups
FetchEndedWithSnapshot ==
    /\ Running /\ threads = <<>> /\ health_loading = FALSE
    /\ health_map # <<>>
    /\ messages # <<>> /\ messages[Len(messages)].tag = "fetched"

\* C36: the thread assigns the snapshot, then clears the loading flag, then
\* pushes its message.  The flag is true until the thread has assigned its
\* result; from then until the thread ends the snapshot is that result; and
\* the snapshot changes in no other step.  So with the flag false the
\* snapshot is the result of the fetch that completed last.
PublishThenClearThenReport ==
    /\ [](\A id \in DOMAIN threads :
              /\ threads[id].pc \in {"fetch", "publish"} => health_loading
              /\ threads[id].pc \in {"clear", "report"} => health_map = threads[id].health
              /\ threads[id].pc = "report" => ~health_loading)
    /\ [][ /\ health_map' # health_map
               => \E id \in DOMAIN threads :
                      /\ threads[id].pc = "publish"
                      /\ health_map' = threads[id].health
                      /\ health_loading' = health_loading /\ messages' = messages
           /\ (health_loading /\ ~health_loading')
               => \E id \in DOMAIN threads :
                      /\ threads[id].pc = "clear"
                      /\ health_map' = health_map /\ messages' = messages
           /\ \A id \in DOMAIN threads :
                  id \notin DOMAIN threads' => threads[id].pc = "report" ]_vars

\* A thread has assigned a snapshot that is not the one of the first fetch
\* and has cleared the flag; its message is still to come, the last of the
\* log is the message of its start.
NewSnapshotBeforeItsMessage ==
    \E id \in DOMAIN threads :
        /\ Running /\ threads[id].pc = "report"
        /\ health_map # <<>> /\ DOMAIN health_map # {<<103>>}
        /\ messages # <<>> /\ messages[Len(messages)].tag = "fetching"

\* C37: confirm_cfg holds a profile exactly in the two confirmation modes,
\* and confirm_custom_key holds a key exactly in the confirmation of a custom
\* key.
PendingMatchesMode ==
    /\ (confirm_cfg # None) <=> (mode \in {MODE_CONFIRM, MODE_CONFIRM_CUSTOM_KEY})
    /\ (confirm_custom_key # <<>>) <=> (mode = MODE_CONFIRM_CUSTOM_KEY)

\* The confirmation of a profile was declined: the console is back in the
\* list with nothing pending.
DeclinedProfileIsNotPending ==
    /\ Running /\ mode = MODE_LIST
    /\ messages # <<>> /\ messages[Len(messages)].tag = "cancel_apply"
    /\ confirm_cfg = None /\ confirm_custom_key = <<>>

\* C38: after a submit of the add-profile form that has added and saved the
\* profile, the profile is in the list of the console and, the search being
\* empty, among the filtered ones, whatever the load of the profile store
\* came to.
AddedProfileIsListed ==
    [][ (/\ mode = MODE_ADD_CUSTOM /\ mode' = MODE_LIST /\ running' = "running"
         /\ search = <<>>
         /\ Len(settings'.custom_configs[ai_type]) = Len(settings.custom_configs[ai_type]) + 1)
        => LET added == settings'.custom_configs[ai_type]
                            [Len(settings'.custom_configs[ai_type])]
           IN  \E k \in 1..Len(filtered_idx') :
                   /\ filtered_idx'[k] < Len(configs')
                   /\ configs'[filtered_idx'[k] + 1] = added ]_vars

\* C39: while a field of the settings is edited, every printable character
\* (codes 32 to 126) that is typed is appended to the edit buffer, and the
\* console stays in the settings, editing.
EditingTakesEveryPrintable ==
    (Running /\ mode = MODE_SETTINGS /\ settings_editing)
        => \A ch \in ChSpace..ChTilde :
               LET w1 == handle_settings_key(Self, ch, TRUE)
               IN  /\ w1.mode = MODE_SETTINGS /\ w1.settings_editing
                   /\ w1.settings_input = Append(settings_input, ch)

\* C40: a confirmed apply rewrites the shell file so that every line that
\* does not assign one of the two written variables is kept unchanged and in
\* its order, the file then holds exactly one line assigning each written
\* variable, an export line placed after all the kept lines, and the lines
\* assigning the variables of the other kind are the ones it held before.
WriteKeepsTheOtherLines ==
    [][ (/\ Running /\ mode \in {MODE_CONFIRM, MODE_CONFIRM_CUSTOM_KEY}
         /\ confirm_cfg # None
         /\ \E ch \in {ChLowerY, ChUpperY, KEY_ENTER} : ModeKey(ch, TRUE, NotLoaded))
        => LET m == CONFIG_MAP[ai_type]
               o == CONFIG_MAP[IF ai_type = "claude" THEN "codex" ELSE "claude"]
               Assigns(ln, k) ==
                   \/ StartsWith(Strip(ln), TxtExport \o k \o <<ChEquals>>)
                   \/ StartsWith(Strip(ln), k \o <<ChEquals>>)
               old == ReadLines(shell_file)
               new == ReadLines(shell_file')
               retained == SelectSeq(old, LAMBDA ln :
                               ~Assigns(ln, m.env_token) /\ ~Assigns(ln, m.env_url))
               others(lines) == SelectSeq(lines, LAMBDA ln :
                               Assigns(ln, o.env_token) \/ Assigns(ln, o.env_url))
           IN  /\ Len(new) >= 2
               /\ SubSeq(new, 1, Len(new) - 2) \in {retained, Append(retained, <<>>)}
               /\ \A k \in {m.env_token, m.env_url} :
                      /\ Cardinality({i \in 1..Len(new) : Assigns(new[i], k)}) = 1
                      /\ \E i \in {Len(new) - 1, Len(new)} :
                             StartsWith(new[i], TxtExport \o k \o <<ChEquals>>)
               /\ others(new) = others(old) ]_vars

\* A profile of each kind was applied: the shell file holds the export lines
\* of the first kind before those of the kind applied last
BothKindsPersisted ==
    /\ mode = MODE_LIST
    /\ messages # <<>> /\ messages[Len(messages)].tag = "source_hint"
    /\ LET lines == ReadLines(shell_file)
       IN  \E i, j \in 1..Len(lines) :
               /\ i < j
               /\ StartsWith(lines[i], TxtExport \o CONFIG_MAP[IF ai_type = "claude" THEN "codex"
                                                   ELSE "claude"].env_token \o <<ChEquals>>)
               /\ StartsWith(lines[j], TxtExport \o CONFIG_MAP[ai_type].env_token \o <<ChEquals>>)

=============================================================================
